---- MODULE Spec2Model ----
(***************************************************************************)
(* Model of the Helios SDK concurrent pagination engine                    *)
(* (heliosSDK/core/baseClasses.py: IndexMixin.index / __indexRunner) and   *)
(* of the batch image download (DownloadImagesMixin.downloadImages /       *)
(* __downloadRunner).                                                      *)
(*                                                                         *)
(* The remote service is the environment.  It holds `total` matching       *)
(* items, numbered 0 .. total-1, and answers a window (skip, limit) with   *)
(* the items skip .. min(skip+limit, total)-1 together with the declared   *)
(* total.  Any request may fail (raise_for_status raises).                 *)
(***************************************************************************)
EXTENDS Integers, Sequences, FiniteSets, TLC

(***************************************************************************)
(* Program constants.                                                      *)
(***************************************************************************)
max_skip == 4000

MaxThreads == 20

QueueMaxSize == 20

(***************************************************************************)
(* Bounds of the model.                                                    *)
(***************************************************************************)
\* largest value of n_queries_needed among the modelled index calls
MaxNeeded == 3

\* largest number of windows between skip and max_skip among the modelled calls
MaxWindows == 40

\* largest number of urls handed to downloadImages
MaxUrls == 3

\* Inputs of the modelled index calls and sizes of the server's data set.
Skips == {0, 100, 2000, 3000, 3900, 3950, 4000, 4100}

Limits == {10, 100, 1000, 1500, 4000, 5000}

Totals == {0, 50, 250, 1000, 3000, 3960, 4000, 4001, 4500, 6000}

VARIABLES
    skip, limit, total,     \* index(skip=, limit=) and the server's data set size
    shape,                  \* the shape of the json that the server answers with
    pc,                     \* position of the thread that called index
    queries,                \* list of windows still to request
    initial_resp_json,      \* decoded first page
    warned,                 \* number of calls of warnings.warn
    n_queries_needed, num_threads,
    results,                \* one slot per remaining query
    q, unfinished,          \* Queue: items and Queue.unfinished_tasks
    workers,                \* the started __indexRunner threads
    requested,              \* log of the windows sent to the server, in order
    ret, exc,               \* value returned by index / exception raised by it
    urls, out_dir, return_image_data,   \* arguments of downloadImages
    files,                  \* names of the files written below out_dir
    dpc,                    \* position of the thread that called downloadImages
    image_data,             \* one slot per url
    dq, dunfinished,        \* Queue(maxsize=20) of downloadImages
    dworkers,               \* the started __downloadRunner threads
    dput,                   \* number of urls already put on the queue
    dret,                   \* value returned by downloadImages
    observation_ids, check_for_duds,    \* arguments of Observations.preview
    max_threads,            \* self.max_threads
    ppc,                    \* position of the thread that called preview
    ptasks,                 \* indices handed to ThreadPool.map and not yet taken
    pworkers,               \* activations of __preview_worker: the pool threads and,
                            \* without a pool, the frame of the caller's own call
    presults,               \* results: one slot per call of the worker
    pcalls,                 \* number of calls of __preview_worker per id
    pret,                   \* value returned by preview
    raw_data,               \* DataContainer._raw_data
    got,                    \* what the last operation on the container gave
    messages,               \* the Message tuples of Observations.preview (observations_api)
    mpc,                    \* position of the thread that called that preview
    mtasks,                 \* indices of the messages no worker has claimed yet
    mworkers,               \* the workers that process the messages
    mrecords,               \* one slot per message for the record of its task
    mfiles,                 \* the observation ids whose image file was written
    mret,                   \* the ImageCollection that preview returns
    AUTH_TOKEN,             \* self._AUTH_TOKEN, set by _startSession
    sent_headers,           \* the headers of the requests of index, in request order
    input_dict,             \* the filter given to _parseInputsForQuery, in key order
    query_str,              \* the query string built so far
    kpc,                    \* position in _parseInputsForQuery
    kdone,                  \* number of keys the loop has gone through
    index_results,          \* the records of the pages that index gave to a resource
    content,                \* the merged features
    gpc,                    \* position in the merge loop
    gdone,                  \* number of records the loop has gone through
    server_times,           \* the image times of the camera, as the server holds them
    start_time, end_time,   \* arguments of Cameras.images; start_time moves on
    images_limit,           \* argument limit of Cameras.images
    image_times,            \* the image times collected so far
    ipc,                    \* position in Cameras.images
    image_requests,         \* the requests of the call, in order
    token,                  \* SessionManager.token
    token_file,             \* ~/.helios_token: empty when there is no file, else its token
    spc,                    \* position in SessionManager.start_session
    starts,                 \* number of calls of start_session so far
    file_found,             \* what _read_token_file met in the running call
    verified,               \* how verify_token ended in the running call
    token_posts,            \* the POSTs to the token url in the running call, in order
    get_calls,              \* number of calls of get_token in the running call
    idx,                    \* self._idx of the container
    loops                   \* the for loops over the container: position and items got

indexVars == <<skip, limit, total, shape, pc, queries, initial_resp_json, warned,
               n_queries_needed, num_threads, results, q, unfinished, workers,
               requested, ret, exc>>

downloadVars == <<urls, out_dir, return_image_data, files, dpc, image_data,
                  dq, dunfinished, dworkers, dput, dret>>

previewVars == <<observation_ids, check_for_duds, max_threads, ppc, ptasks,
                 pworkers, presults, pcalls, pret>>

containerVars == <<raw_data, got>>

messageVars == <<messages, mpc, mtasks, mworkers, mrecords, mfiles, mret>>

sessionVars == <<AUTH_TOKEN, sent_headers>>

\* the variables of the batch calls of the newer classes
queryVars == <<input_dict, query_str, kpc, kdone>>

mergeVars == <<index_results, content, gpc, gdone>>

imagesVars == <<server_times, start_time, end_time, images_limit, image_times, ipc,
                image_requests>>

managerVars == <<token, token_file, spc, starts, file_found, verified, token_posts, get_calls>>

iterVars == <<idx, loops>>

\* the variables of SessionManager and of the iteration over a container
lastVars == <<managerVars, iterVars>>

notSession ==
    <<previewVars, containerVars, messageVars, queryVars, mergeVars, imagesVars, lastVars>>

\* the variables of the calls modelled besides index and downloadImages
restVars == <<notSession, sessionVars>>

\* what a call of preview leaves alone
notPreview ==
    <<indexVars, downloadVars, containerVars, messageVars, sessionVars, queryVars, mergeVars,
      imagesVars, lastVars>>

\* what an operation on a DataContainer leaves alone
notContainer ==
    <<indexVars, downloadVars, previewVars, messageVars, sessionVars, queryVars, mergeVars,
      imagesVars, lastVars>>

\* the variables of the calls modelled first
earlierVars == <<indexVars, downloadVars, previewVars, containerVars, messageVars, sessionVars>>

\* what _parseInputsForQuery leaves alone
notQuery == <<earlierVars, mergeVars, imagesVars, lastVars>>

\* what the merge of the pages leaves alone
notMerge == <<earlierVars, queryVars, imagesVars, lastVars>>

\* what Cameras.images leaves alone
notImages == <<earlierVars, queryVars, mergeVars, lastVars>>

\* what SessionManager.start_session leaves alone
notManager == <<earlierVars, queryVars, mergeVars, imagesVars, iterVars>>

\* what a for loop over a container leaves alone
notIter ==
    <<indexVars, downloadVars, previewVars, messageVars, sessionVars, queryVars, mergeVars,
      imagesVars, managerVars>>

\* what a call of the preview of observations_api leaves alone
notMessages ==
    <<indexVars, downloadVars, previewVars, containerVars, sessionVars, queryVars, mergeVars,
      imagesVars, lastVars>>

vars == <<indexVars, downloadVars, restVars>>

(***************************************************************************)
(* Helpers.                                                                *)
(***************************************************************************)
Min(a, b) == IF a < b THEN a ELSE b

Max(a, b) == IF a > b THEN a ELSE b

\* int(ceil(a / float(b))) for b > 0
CeilDiv(a, b) == -((-a) \div b)

\* the slice stops one element early
PySlice0_OneShort(seq, k) == SubSeq(seq, 1, Min(k, Len(seq)) - 1)

\* seq[0:k] with Python's treatment of a negative or too large k
PySlice0(seq, k) ==
    LET e == IF k < 0 THEN Max(0, Len(seq) + k) ELSE Min(k, Len(seq))
    IN  SubSeq(seq, 1, e)

\* the placeholder [] of a result slot, and "no page yet"
EmptySlot == [skip |-> -1, n |-> 0, total |-> -1]

NoWindow == [skip |-> -1, limit |-> 0]

(***************************************************************************)
(* The window list built by index: for i in range(skip, max_skip, limit),  *)
(* with the limit of a window clipped at max_skip.                         *)
(***************************************************************************)
\* the limit of the last window is not clipped
TempLimit_NoClip(i, lim) == lim

TempLimit(i, lim) == IF i + lim > max_skip THEN max_skip - i ELSE lim

RECURSIVE BuildQueries(_, _)
BuildQueries(i, lim) ==
    IF i >= max_skip THEN <<>>
    ELSE <<[skip |-> i, limit |-> TempLimit(i, lim)]>> \o BuildQueries(i + lim, lim)

(***************************************************************************)
(* The server's answer to one window.                                      *)
(***************************************************************************)
ServerPage(w, tot) ==
    [skip |-> w.skip, n |-> Min(w.limit, Max(0, tot - w.skip)), total |-> tot]

\* the shapes of a page: GeoJSON with the total among its properties, a
\* feature list with the total beside it, and a generic list of results
Shapes == {"geojson", "features", "results"}

\* the json body of a page in the given shape; a list is kept as its length
Body(sh, page) ==
    CASE sh = "geojson" ->
           [skip |-> page.skip, properties |-> [total |-> page.total],
            features |-> [len |-> page.n]]
      [] sh = "features" ->
           [skip |-> page.skip, total |-> page.total, features |-> [len |-> page.n]]
      [] sh = "results" ->
           [skip |-> page.skip, total |-> page.total, results |-> [len |-> page.n]]

\* the total is looked for among the properties only
TotalOf_PropertiesOnly(body) ==
    IF "properties" \in DOMAIN body THEN body.properties.total ELSE 0

\* lines 84-87: json['properties']['total'], or else json['total']
TotalOf(body) ==
    IF "properties" \in DOMAIN body /\ "total" \in DOMAIN body.properties
    THEN body.properties.total
    ELSE body.total

\* lines 94-97: len(json['features']), or else len(json['results'])
CountOf(body) ==
    IF "features" \in DOMAIN body THEN body.features.len ELSE body.results.len

\* what index reads from the body of the first page
Decode(body) == [skip |-> body.skip, n |-> CountOf(body), total |-> TotalOf(body)]

\* the comparison with max_skip is not strict
Truncated_NotStrict(tot) == tot >= max_skip

\* total declared in the first page exceeds max_skip
Truncated(tot) == tot > max_skip

\* the early return is taken for an empty first page only
OnlyOneQuery_EmptyOnly(n, lim) == n = 0

\* "if n < limit: return [initial_resp_json]"
OnlyOneQuery(n, lim) == n < lim

\* the first query is counted again
NQueriesNeeded_CountsFirst(tot, sk, lim) == CeilDiv(tot - sk, lim)

\* integer division instead of ceil of the float division
NQueriesNeeded_Floor(tot, sk, lim) == ((tot - sk) \div lim) - 1

NQueriesNeeded(tot, sk, lim) == CeilDiv(tot - sk, lim) - 1

NumThreads(needed) == Min(MaxThreads, needed)

\* the caller waits for an empty queue, not for the tasks to be done
JoinReady_QueueEmpty(unfin, queue) == queue = <<>>

\* q.join() returns when every put item has been marked done
JoinReady(unfin, queue) == unfin = 0

\* the page goes to the first free slot, that is, in completion order
StoreResult_CompletionOrder(res, index, page) ==
    LET free == {i \in 1..Len(res) : res[i] = EmptySlot}
        first == CHOOSE i \in free : \A j \in free : i <= j
    IN  [res EXCEPT ![first] = page]

\* results[index] = resp.json()
StoreResult(res, index, page) == [res EXCEPT ![index + 1] = page]

(***************************************************************************)
(* index, the calling thread.                                              *)
(***************************************************************************)
IndexInputs ==
    {in \in [skip : Skips, limit : Limits, total : Totals] :
        /\ CeilDiv(in.total - in.skip, in.limit) - 1 <= MaxNeeded
        /\ CeilDiv(max_skip - in.skip, in.limit) <= MaxWindows}

\* url None, the placeholder [] of an image slot, and the return value None
NoneUrl == 0

EmptyImage == [decoded_from |-> -1]

ReturnsNone == [is_none |-> TRUE, data |-> <<>>]

DownloadIdle ==
    /\ urls = <<>> /\ out_dir = FALSE /\ return_image_data = FALSE
    /\ files = {} /\ dpc = "idle" /\ image_data = <<>>
    /\ dq = <<>> /\ dunfinished = 0 /\ dworkers = <<>> /\ dput = 0
    /\ dret = ReturnsNone

\* the return value of preview while the call is running
NoReturn == [kind |-> "pending", data |-> <<>>]

PreviewIdle ==
    /\ observation_ids = <<>> /\ check_for_duds = FALSE /\ max_threads = 0
    /\ ppc = "idle" /\ ptasks = <<>> /\ pworkers = <<>> /\ presults = <<>>
    /\ pcalls = <<>> /\ pret = NoReturn

\* no DataContainer has been constructed
ContainerIdle ==
    /\ raw_data = <<>>
    /\ got = [op |-> "none", value |-> <<>>]

\* the preview of observations_api has not been called
MessagesIdle ==
    /\ messages = <<>>
    /\ mpc = "idle"
    /\ mtasks = <<>>
    /\ mworkers = <<>>
    /\ mrecords = <<>>
    /\ mfiles = {}
    /\ mret = [content |-> <<>>, records |-> <<>>]

\* the token that _startSession has stored
SessionToken == [name |-> "Authorization", value |-> "Bearer t1"]

\* headers={self._AUTH_TOKEN['name']: self._AUTH_TOKEN['value']}
Header(tok) == [name |-> tok.name, value |-> tok.value]

\* a request without headers: self._getRequest(url)
NoHeaders == [name |-> "None", value |-> "None"]

\* the session is started and no request has been sent
SessionStarted ==
    /\ AUTH_TOKEN = SessionToken
    /\ sent_headers = <<>>

\* _parseInputsForQuery has not been called
QueryIdle ==
    /\ input_dict = <<>>
    /\ query_str = <<>>
    /\ kpc = "idle"
    /\ kdone = 0

\* no pages are being merged
MergeIdle ==
    /\ index_results = <<>>
    /\ content = <<>>
    /\ gpc = "idle"
    /\ gdone = 0

\* Cameras.images has not been called
ImagesIdle ==
    /\ server_times = <<>>
    /\ start_time = 0 /\ end_time = 0
    /\ images_limit = 0
    /\ image_times = <<>>
    /\ ipc = "idle"
    /\ image_requests = <<>>

\* no SessionManager has been made
ManagerIdle ==
    /\ token = [name |-> "None", value |-> "None"]
    /\ token_file = <<>>
    /\ spc = "idle"
    /\ starts = 0
    /\ file_found = "unread"
    /\ verified = "none"
    /\ token_posts = <<>>
    /\ get_calls = 0

\* no for loop runs over a container
IterIdle ==
    /\ idx = 0
    /\ loops = <<>>

LastIdle == ManagerIdle /\ IterIdle

\* none of the calls modelled later is running
LaterIdle == QueryIdle /\ MergeIdle /\ ImagesIdle /\ LastIdle

RestIdle == PreviewIdle /\ ContainerIdle /\ MessagesIdle /\ SessionStarted /\ LaterIdle

IndexIdle ==
    /\ skip = 0 /\ limit = 0 /\ total = 0
    /\ shape = "none"
    /\ pc = "idle"
    /\ queries = <<>>
    /\ initial_resp_json = EmptySlot
    /\ warned = 0
    /\ n_queries_needed = 0 /\ num_threads = 0
    /\ results = <<>>
    /\ q = <<>> /\ unfinished = 0
    /\ workers = <<>>
    /\ requested = <<>>
    /\ ret = <<>> /\ exc = "None"

IndexInit ==
    /\ \E in \in IndexInputs :
          /\ skip = in.skip /\ limit = in.limit /\ total = in.total
    /\ shape \in Shapes
    /\ pc = "build"
    /\ queries = <<>>
    /\ initial_resp_json = EmptySlot
    /\ warned = 0
    /\ n_queries_needed = 0 /\ num_threads = 0
    /\ results = <<>>
    /\ q = <<>> /\ unfinished = 0
    /\ workers = <<>>
    /\ requested = <<>>
    /\ ret = <<>> /\ exc = "None"

Init == IndexInit /\ DownloadIdle /\ RestIdle

\* lines 49-75: parse the arguments and establish all queries
EstablishQueries ==
    /\ pc = "build"
    /\ queries' = BuildQueries(skip, limit)
    /\ pc' = "first"
    /\ UNCHANGED <<downloadVars, restVars, shape, skip, limit, total, initial_resp_json, warned, n_queries_needed,
                   num_threads, results, q, unfinished, workers, requested, ret, exc>>

\* line 79: queries.pop(0) on an empty list
FirstQueryMissing ==
    /\ pc = "first"
    /\ queries = <<>>
    /\ exc' = "IndexError"
    /\ pc' = "raised"
    /\ UNCHANGED <<downloadVars, restVars, shape, skip, limit, total, queries, initial_resp_json, warned,
                   n_queries_needed, num_threads, results, q, unfinished, workers,
                   requested, ret>>

\* lines 79-87: the first query succeeds
FirstQueryOk ==
    /\ pc = "first"
    /\ queries # <<>>
    /\ requested' = Append(requested, Head(queries))
    /\ sent_headers' = Append(sent_headers, Header(AUTH_TOKEN))
    /\ queries' = Tail(queries)
    /\ initial_resp_json' = Decode(Body(shape, ServerPage(Head(queries), total)))
    /\ pc' = "warn"
    /\ UNCHANGED <<downloadVars, notSession, AUTH_TOKEN, shape, skip, limit, total, warned, n_queries_needed, num_threads,
                   results, q, unfinished, workers, ret, exc>>

\* the error of the first query is swallowed and index goes on without a page
FirstQueryFails_Swallowed ==
    /\ pc = "first"
    /\ queries # <<>>
    /\ requested' = Append(requested, Head(queries))
    /\ sent_headers' = Append(sent_headers, Header(AUTH_TOKEN))
    /\ queries' = Tail(queries)
    /\ pc' = "warn"
    /\ UNCHANGED <<downloadVars, notSession, AUTH_TOKEN, shape, skip, limit, total, initial_resp_json, warned,
                   n_queries_needed, num_threads, results, q, unfinished, workers,
                   ret, exc>>

\* lines 79-81: the first query fails, getRequest raises
FirstQueryFails ==
    /\ pc = "first"
    /\ queries # <<>>
    /\ requested' = Append(requested, Head(queries))
    /\ sent_headers' = Append(sent_headers, Header(AUTH_TOKEN))
    /\ queries' = Tail(queries)
    /\ exc' = "HTTPError"
    /\ pc' = "raised"
    /\ UNCHANGED <<downloadVars, notSession, AUTH_TOKEN, shape, skip, limit, total, initial_resp_json, warned, n_queries_needed,
                   num_threads, results, q, unfinished, workers, ret>>

\* lines 89-91: warn the user when truncation occurs
WarnTruncation ==
    /\ pc = "warn"
    /\ warned' = IF Truncated(initial_resp_json.total) THEN warned + 1 ELSE warned
    /\ pc' = "size"
    /\ UNCHANGED <<downloadVars, restVars, shape, skip, limit, total, queries, initial_resp_json, n_queries_needed,
                   num_threads, results, q, unfinished, workers, requested, ret, exc>>

\* lines 93-101: only one query was necessary
ReturnFirstOnly ==
    /\ pc = "size"
    /\ OnlyOneQuery(initial_resp_json.n, limit)
    /\ ret' = <<initial_resp_json>>
    /\ pc' = "returned"
    /\ UNCHANGED <<downloadVars, restVars, shape, skip, limit, total, queries, initial_resp_json, warned,
                   n_queries_needed, num_threads, results, q, unfinished, workers,
                   requested, exc>>

\* lines 103-112: number of further queries, thread count, result slots
SizeRest ==
    /\ pc = "size"
    /\ ~OnlyOneQuery(initial_resp_json.n, limit)
    /\ LET needed == NQueriesNeeded(initial_resp_json.total, skip, limit)
           rest == PySlice0(queries, needed)
       IN  /\ n_queries_needed' = needed
           /\ queries' = rest
           /\ num_threads' = NumThreads(needed)
           /\ results' = [i \in 1..Len(rest) |-> EmptySlot]
    /\ pc' = "threads"
    /\ UNCHANGED <<downloadVars, restVars, shape, skip, limit, total, initial_resp_json, warned, q, unfinished,
                   workers, requested, ret, exc>>

\* lines 113-116: start one __indexRunner thread
StartIndexRunner ==
    /\ pc = "threads"
    /\ Len(workers) < num_threads
    /\ workers' = Append(workers, [pc |-> "get", query |-> NoWindow, index |-> -1,
                                   resp |-> EmptySlot])
    /\ UNCHANGED <<downloadVars, restVars, shape, skip, limit, total, pc, queries, initial_resp_json, warned,
                   n_queries_needed, num_threads, results, q, unfinished, requested,
                   ret, exc>>

\* line 113: the loop over range(num_threads) is over
ThreadsStarted ==
    /\ pc = "threads"
    /\ Len(workers) >= num_threads
    /\ pc' = "put"
    /\ UNCHANGED <<downloadVars, restVars, shape, skip, limit, total, queries, initial_resp_json, warned,
                   n_queries_needed, num_threads, results, q, unfinished, workers,
                   requested, ret, exc>>

\* line 119: q.put((x, i)) for the next query; the queue is unbounded
PutQuery ==
    /\ pc = "put"
    /\ LET i == Len(results) - Len(queries)
       IN  /\ queries # <<>>
           /\ q' = Append(q, [query |-> Head(queries), index |-> i])
           /\ unfinished' = unfinished + 1
           /\ queries' = Tail(queries)
    /\ UNCHANGED <<downloadVars, restVars, shape, skip, limit, total, pc, initial_resp_json, warned,
                   n_queries_needed, num_threads, results, workers, requested, ret, exc>>

\* line 119: every query has been put
PutDone ==
    /\ pc = "put"
    /\ queries = <<>>
    /\ pc' = "join"
    /\ UNCHANGED <<downloadVars, restVars, shape, skip, limit, total, queries, initial_resp_json, warned,
                   n_queries_needed, num_threads, results, q, unfinished, workers,
                   requested, ret, exc>>

\* lines 120-125: q.join() returns; put the initial query back and return
JoinAndReturn ==
    /\ pc = "join"
    /\ JoinReady(unfinished, q)
    /\ ret' = <<initial_resp_json>> \o results
    /\ pc' = "returned"
    /\ UNCHANGED <<downloadVars, restVars, shape, skip, limit, total, queries, initial_resp_json, warned,
                   n_queries_needed, num_threads, results, q, unfinished, workers,
                   requested, exc>>

(***************************************************************************)
(* __indexRunner, thread w.                                                *)
(***************************************************************************)
\* the thread takes the item that was put last
RunnerGet_TakesLast ==
    \E w \in 1..Len(workers) :
        /\ workers[w].pc = "get"
        /\ q # <<>>
        /\ workers' = [workers EXCEPT ![w] = [pc |-> "request", query |-> q[Len(q)].query,
                                              index |-> q[Len(q)].index, resp |-> EmptySlot]]
        /\ q' = SubSeq(q, 1, Len(q) - 1)
        /\ UNCHANGED <<downloadVars, restVars, shape, skip, limit, total, pc, queries, initial_resp_json,
                       warned, n_queries_needed, num_threads, results, unfinished, requested,
                       ret, exc>>

\* line 129: q.get() blocks while the queue is empty
RunnerGet ==
    \E w \in 1..Len(workers) :
        /\ workers[w].pc = "get"
        /\ q # <<>>
        /\ workers' = [workers EXCEPT ![w] = [pc |-> "request", query |-> Head(q).query,
                                              index |-> Head(q).index, resp |-> EmptySlot]]
        /\ q' = Tail(q)
        /\ UNCHANGED <<downloadVars, restVars, shape, skip, limit, total, pc, queries, initial_resp_json, warned,
                       n_queries_needed, num_threads, results, unfinished, requested,
                       ret, exc>>

\* lines 131-133: the request succeeds
RunnerRequestOk ==
    \E w \in 1..Len(workers) :
        /\ workers[w].pc = "request"
        /\ requested' = Append(requested, workers[w].query)
        /\ sent_headers' = Append(sent_headers, Header(AUTH_TOKEN))
        /\ workers' = [workers EXCEPT ![w].pc = "store",
                                      ![w].resp = ServerPage(workers[w].query, total)]
        /\ UNCHANGED <<downloadVars, notSession, AUTH_TOKEN, shape, skip, limit, total, pc, queries, initial_resp_json, warned,
                       n_queries_needed, num_threads, results, q, unfinished, ret, exc>>

\* lines 131-135: the request (or the decoding of its body) raises; nothing
\* catches it, the thread ends without task_done
RunnerRequestFails ==
    \E w \in 1..Len(workers) :
        /\ workers[w].pc = "request"
        /\ requested' = Append(requested, workers[w].query)
        /\ sent_headers' = Append(sent_headers, Header(AUTH_TOKEN))
        /\ workers' = [workers EXCEPT ![w].pc = "dead"]
        /\ UNCHANGED <<downloadVars, notSession, AUTH_TOKEN, shape, skip, limit, total, pc, queries, initial_resp_json, warned,
                       n_queries_needed, num_threads, results, q, unfinished, ret, exc>>

\* line 135
RunnerStore ==
    \E w \in 1..Len(workers) :
        /\ workers[w].pc = "store"
        /\ results' = StoreResult(results, workers[w].index, workers[w].resp)
        /\ workers' = [workers EXCEPT ![w].pc = "task_done"]
        /\ UNCHANGED <<downloadVars, restVars, shape, skip, limit, total, pc, queries, initial_resp_json, warned,
                       n_queries_needed, num_threads, q, unfinished, requested, ret, exc>>

\* line 137
RunnerTaskDone ==
    \E w \in 1..Len(workers) :
        /\ workers[w].pc = "task_done"
        /\ unfinished' = unfinished - 1
        /\ workers' = [workers EXCEPT ![w].pc = "get"]
        /\ UNCHANGED <<downloadVars, restVars, shape, skip, limit, total, pc, queries, initial_resp_json, warned,
                       n_queries_needed, num_threads, results, q, requested, ret, exc>>

Next ==
    \/ EstablishQueries
    \/ FirstQueryMissing
    \/ FirstQueryOk
    \/ FirstQueryFails
    \/ WarnTruncation
    \/ ReturnFirstOnly
    \/ SizeRest
    \/ StartIndexRunner
    \/ ThreadsStarted
    \/ PutQuery
    \/ PutDone
    \/ JoinAndReturn
    \/ RunnerGet
    \/ RunnerRequestOk
    \/ RunnerRequestFails
    \/ RunnerStore
    \/ RunnerTaskDone

Spec == Init /\ [][Next]_vars

(***************************************************************************)
(* Definitions used to state the properties of index.                      *)
(***************************************************************************)
\* the k-th window after the first one, written from skip and limit alone
WindowAt(k) ==
    [skip |-> skip + k * limit, limit |-> Min(limit, max_skip - (skip + k * limit))]

\* number of windows that start after the first one and below max_skip
WindowsAfterFirst == CeilDiv(max_skip - skip, limit) - 1

FirstPageKnown == pc \in {"warn", "size", "threads", "put", "join", "returned"}

FirstPageFull == FirstPageKnown /\ initial_resp_json.n >= limit

FirstPageShort == FirstPageKnown /\ initial_resp_json.n < limit

SomeRunnerDead == \E w \in 1..Len(workers) : workers[w].pc = "dead"

\* no thread of the call can take a step any more
IndexQuiescent ==
    /\ pc \in {"join", "returned", "raised"}
    /\ pc = "join" => unfinished # 0
    /\ \A w \in 1..Len(workers) :
          \/ workers[w].pc = "dead"
          \/ workers[w].pc = "get" /\ q = <<>>

RangeOf(seq) == {seq[i] : i \in 1..Len(seq)}

\* the items of a page, and the sum of the page sizes
RECURSIVE SumN(_)
SumN(pages) == IF pages = <<>> THEN 0 ELSE Head(pages).n + SumN(Tail(pages))

(***************************************************************************)
(* C1: whenever index returns, the returned list of pages is in ascending  *)
(* window order: element 0 is the first page (skip0) and element k is the  *)
(* server's answer to the k-th remaining window, whatever the order in     *)
(* which the worker threads issued and completed their requests.           *)
(***************************************************************************)
C1_PagesInWindowOrder ==
    pc = "returned" =>
        /\ ret[1] = initial_resp_json
        /\ ret[1].skip = skip
        /\ \A k \in 1..(Len(ret) - 1) : ret[k + 1] = ServerPage(WindowAt(k), total)

\* three pages were returned although a later window was requested before an
\* earlier one
C1_Witness ==
    /\ pc = "returned"
    /\ Len(ret) >= 3
    /\ \E i, j \in 1..Len(requested) : i < j /\ requested[i].skip > requested[j].skip

(***************************************************************************)
(* C2: when the fetch of a page after the first fails, the failure reaches *)
(* the caller as an error of the whole index call: once the threads of the *)
(* call have nothing left to do, the call has raised; it has not returned  *)
(* and it is not left waiting in q.join().                                 *)
(***************************************************************************)
C2_LaterPageFailureIsFatal ==
    (SomeRunnerDead /\ IndexQuiescent) => pc = "raised"

(***************************************************************************)
(* C5: when no page fetch failed, index returns only after every submitted *)
(* task has written its slot: at the return no slot of results still holds *)
(* its placeholder, and the returned list has one entry per slot plus the  *)
(* first page.                                                             *)
(***************************************************************************)
C5_NoPlaceholderAtReturn ==
    (pc = "returned" /\ ~SomeRunnerDead /\ FirstPageFull) =>
        /\ \A i \in 1..Len(results) : results[i] # EmptySlot
        /\ Len(ret) = Len(results) + 1
        /\ \A i \in 1..Len(ret) : ret[i] # EmptySlot

C5_Witness == pc = "returned" /\ Len(results) >= 2 /\ Len(workers) >= 2

(***************************************************************************)
(* C6: the windows built by index start at skip0, are contiguous (each     *)
(* window starts where the previous one ends), do not overlap, have        *)
(* strictly increasing skips, and none reaches beyond max_skip.            *)
(***************************************************************************)
C6_WindowsContiguous ==
    pc = "first" =>
        /\ queries # <<>> => queries[1].skip = skip
        /\ \A k \in 1..(Len(queries) - 1) :
              /\ queries[k + 1].skip = queries[k].skip + limit
              /\ queries[k + 1].skip = queries[k].skip + queries[k].limit
              /\ queries[k + 1].skip > queries[k].skip
        /\ \A k \in 1..Len(queries) :
              /\ queries[k].limit >= 1
              /\ queries[k].skip + queries[k].limit <= max_skip

\* a list of at least three windows whose last window is clipped
C6_Witness ==
    /\ pc = "first"
    /\ Len(queries) >= 3
    /\ queries[Len(queries)].limit < limit

(***************************************************************************)
(* C7 as stated: for skip0 = 0, limit = 100 and total = 250 the requested  *)
(* windows are (0,100), (100,100), (200,50) and 250 items are returned.    *)
(***************************************************************************)
C7_Original ==
    (pc = "returned" /\ skip = 0 /\ limit = 100 /\ total = 250) =>
        /\ Len(requested) = 3
        /\ RangeOf(requested) = {[skip |-> 0, limit |-> 100],
                                 [skip |-> 100, limit |-> 100],
                                 [skip |-> 200, limit |-> 50]}
        /\ SumN(ret) = 250

(***************************************************************************)
(* C7 amended: for skip0 = 0, limit = 100 and total = 250 a call that      *)
(* returns has requested exactly the windows (0,100), (100,100), (200,100) *)
(* (the limit of a window is clipped by max_skip only, never by the        *)
(* total); the pages come back in ascending skip order with 100, 100 and   *)
(* 50 items, 250 items in all.                                             *)
(***************************************************************************)
C7_Scenario250 ==
    (pc = "returned" /\ skip = 0 /\ limit = 100 /\ total = 250) =>
        /\ Len(requested) = 3
        /\ RangeOf(requested) = {[skip |-> 0, limit |-> 100],
                                 [skip |-> 100, limit |-> 100],
                                 [skip |-> 200, limit |-> 100]}
        /\ ret = <<[skip |-> 0, n |-> 100, total |-> 250],
                   [skip |-> 100, n |-> 100, total |-> 250],
                   [skip |-> 200, n |-> 50, total |-> 250]>>
        /\ SumN(ret) = 250

C7_Witness ==
    /\ pc = "returned" /\ skip = 0 /\ limit = 100 /\ total = 250
    /\ Len(ret) = 3

(***************************************************************************)
(* C8: when the first page is full, the further queries of index are the   *)
(* windows at skip0 + limit, skip0 + 2*limit, ... in that order, and their *)
(* number is min(ceil((total - skip0) / limit) - 1, number of windows that *)
(* start after the first one below max_skip); each is requested at most    *)
(* once and, when index returns, exactly once.                             *)
(***************************************************************************)
C8_FurtherQueries ==
    LET m == Min(CeilDiv(total - skip, limit) - 1, WindowsAfterFirst)
        expected == [k \in 1..m |-> WindowAt(k)]
        later == Tail(requested)
    IN  (FirstPageFull /\ pc # "warn" /\ pc # "size") =>
            /\ pc = "threads" => queries = expected
            /\ Len(results) = m
            /\ RangeOf(later) \subseteq RangeOf(expected)
            /\ \A i, j \in 1..Len(later) : later[i] = later[j] => i = j
            /\ pc = "returned" => Len(later) = m

\* a returned call that made three further requests
C8_Witness ==
    /\ pc = "returned" /\ FirstPageFull
    /\ Len(requested) = 4

(***************************************************************************)
(* C9: if the first page holds fewer items than limit, index starts no     *)
(* worker thread, puts nothing on the queue, sends no request but the      *)
(* first, and returns exactly that one page, whatever the declared total.  *)
(***************************************************************************)
C9_ShortFirstPage ==
    FirstPageShort =>
        /\ pc \in {"warn", "size", "returned"}
        /\ Len(workers) = 0 /\ num_threads = 0
        /\ q = <<>> /\ unfinished = 0
        /\ Len(requested) = 1
        /\ pc = "returned" => ret = <<initial_resp_json>>

\* one page came back although the server declares more than a page beyond it
C9_Witness ==
    /\ pc = "returned" /\ FirstPageShort
    /\ total - skip > limit

(***************************************************************************)
(* C10: index calls warnings.warn for the truncation exactly when the      *)
(* total declared in the first page is strictly greater than max_skip, and *)
(* at most once per call (no warning for 4000, one for 4001).              *)
(***************************************************************************)
C10_TruncationWarning ==
    /\ warned <= 1
    /\ pc \in {"build", "first", "warn", "raised"} => warned = 0
    /\ pc \in {"size", "threads", "put", "join", "returned"} =>
          (warned = 1 <=> initial_resp_json.total > max_skip)
    /\ (FirstPageKnown /\ pc # "warn" /\ total = max_skip) => warned = 0
    /\ (FirstPageKnown /\ pc # "warn" /\ total = max_skip + 1) => warned = 1

C10_Witness == pc = "returned" /\ total = max_skip + 1 /\ warned = 1

(***************************************************************************)
(* downloadImages, the calling thread.  urls[i] is NoneUrl or the url i;   *)
(* out_dir is TRUE when a directory is given.                              *)
(***************************************************************************)
\* skimage.io.imread(BytesIO(resp.content)) of the body served for url
Imread(url) == [decoded_from |-> url]

\* q.join() of downloadImages
DownloadJoinReady(unfin) == unfin = 0

\* a put on Queue(maxsize=20) blocks while the queue is full
PutBlocks(queue) == Len(queue) >= QueueMaxSize

DownloadInit ==
    /\ \E n \in 0..MaxUrls :
          urls \in {u \in [1..n -> 0..n] : \A i \in 1..n : u[i] \in {NoneUrl, i}}
    /\ out_dir \in BOOLEAN
    /\ return_image_data \in BOOLEAN
    /\ files = {}
    /\ dpc = "start"
    /\ image_data = <<>>
    /\ dq = <<>> /\ dunfinished = 0
    /\ dworkers = <<>>
    /\ dput = 0
    /\ dret = ReturnsNone

\* lines 184-196: queue, thread count and one slot per url
DownloadSetup ==
    /\ dpc = "start"
    /\ image_data' = [i \in 1..Len(urls) |-> EmptyImage]
    /\ dpc' = "threads"
    /\ UNCHANGED <<indexVars, restVars, urls, out_dir, return_image_data, files, dq, dunfinished,
                   dworkers, dput, dret>>

\* lines 197-200: start one __downloadRunner thread
StartDownloadRunner ==
    /\ dpc = "threads"
    /\ Len(dworkers) < Min(MaxThreads, Len(urls))
    /\ dworkers' = Append(dworkers, [pc |-> "get", url |-> NoneUrl, index |-> -1])
    /\ UNCHANGED <<indexVars, restVars, urls, out_dir, return_image_data, files, dpc, image_data, dq,
                   dunfinished, dput, dret>>

\* line 197: the loop over range(num_threads) is over
DownloadThreadsStarted ==
    /\ dpc = "threads"
    /\ Len(dworkers) >= Min(MaxThreads, Len(urls))
    /\ dpc' = "put"
    /\ UNCHANGED <<indexVars, restVars, urls, out_dir, return_image_data, files, image_data, dq,
                   dunfinished, dworkers, dput, dret>>

\* lines 202-203: q.put((url, out_dir, return_image_data, i))
PutUrl ==
    /\ dpc = "put"
    /\ dput < Len(urls)
    /\ ~PutBlocks(dq)
    /\ dq' = Append(dq, [url |-> urls[dput + 1], index |-> dput])
    /\ dunfinished' = dunfinished + 1
    /\ dput' = dput + 1
    /\ UNCHANGED <<indexVars, restVars, urls, out_dir, return_image_data, files, dpc, image_data,
                   dworkers, dret>>

\* line 202: every url has been put
PutUrlsDone ==
    /\ dpc = "put"
    /\ dput >= Len(urls)
    /\ dpc' = "join"
    /\ UNCHANGED <<indexVars, restVars, urls, out_dir, return_image_data, files, image_data, dq,
                   dunfinished, dworkers, dput, dret>>

\* lines 204-207: q.join() returns; return image_data or None
DownloadJoinAndReturn ==
    /\ dpc = "join"
    /\ DownloadJoinReady(dunfinished)
    /\ dret' = IF return_image_data THEN [is_none |-> FALSE, data |-> image_data]
               ELSE ReturnsNone
    /\ dpc' = "returned"
    /\ UNCHANGED <<indexVars, restVars, urls, out_dir, return_image_data, files, image_data, dq,
                   dunfinished, dworkers, dput>>

(***************************************************************************)
(* __downloadRunner, thread w.                                             *)
(***************************************************************************)
\* after the request: write the file, decode the image, or finish the task
AfterRequest == IF out_dir THEN "write" ELSE IF return_image_data THEN "decode"
                ELSE "task_done"

\* a q.get() that hands the item out and leaves it on the queue
DownloadGet_LeavesItem ==
    \E w \in 1..Len(dworkers) :
        /\ dworkers[w].pc = "get"
        /\ dq # <<>>
        /\ dworkers' = [dworkers EXCEPT ![w] =
                          [pc |-> IF Head(dq).url = NoneUrl THEN "task_done" ELSE "request",
                           url |-> Head(dq).url, index |-> Head(dq).index]]
        /\ UNCHANGED <<indexVars, restVars, urls, out_dir, return_image_data, files, dpc, image_data,
                       dq, dunfinished, dput, dret>>

\* lines 211-212: q.get(); a url that is None is only marked done
DownloadGet ==
    \E w \in 1..Len(dworkers) :
        /\ dworkers[w].pc = "get"
        /\ dq # <<>>
        /\ dworkers' = [dworkers EXCEPT ![w] =
                          [pc |-> IF Head(dq).url = NoneUrl THEN "task_done" ELSE "request",
                           url |-> Head(dq).url, index |-> Head(dq).index]]
        /\ dq' = Tail(dq)
        /\ UNCHANGED <<indexVars, restVars, urls, out_dir, return_image_data, files, dpc, image_data,
                       dunfinished, dput, dret>>

\* the thread gets itself a fresh token and sends it with its request
DownloadRequestOk_RenewsToken ==
    \E w \in 1..Len(dworkers) :
        /\ dworkers[w].pc = "request"
        /\ AUTH_TOKEN' = [AUTH_TOKEN EXCEPT !.value = "Bearer t2"]
        /\ sent_headers' = Append(sent_headers, Header(AUTH_TOKEN'))
        /\ dworkers' = [dworkers EXCEPT ![w].pc = AfterRequest]
        /\ UNCHANGED <<indexVars, notSession, urls, out_dir, return_image_data, files, dpc,
                       image_data, dq, dunfinished, dput, dret>>

\* line 213: the request succeeds
DownloadRequestOk ==
    \E w \in 1..Len(dworkers) :
        /\ dworkers[w].pc = "request"
        /\ sent_headers' = Append(sent_headers, NoHeaders)
        /\ dworkers' = [dworkers EXCEPT ![w].pc = AfterRequest]
        /\ UNCHANGED <<indexVars, notSession, AUTH_TOKEN, urls, out_dir, return_image_data, files, dpc, image_data, dq,
                       dunfinished, dput, dret>>

\* line 213: getRequest raises; nothing catches it, the thread ends
DownloadRequestFails ==
    \E w \in 1..Len(dworkers) :
        /\ dworkers[w].pc = "request"
        /\ sent_headers' = Append(sent_headers, NoHeaders)
        /\ dworkers' = [dworkers EXCEPT ![w].pc = "dead"]
        /\ UNCHANGED <<indexVars, notSession, AUTH_TOKEN, urls, out_dir, return_image_data, files, dpc, image_data, dq,
                       dunfinished, dput, dret>>

\* lines 214-219: the body is written to out_dir/tail
DownloadWriteOk ==
    \E w \in 1..Len(dworkers) :
        /\ dworkers[w].pc = "write"
        /\ files' = files \cup {dworkers[w].url}
        /\ dworkers' = [dworkers EXCEPT ![w].pc = IF return_image_data THEN "decode"
                                                  ELSE "task_done"]
        /\ UNCHANGED <<indexVars, restVars, urls, out_dir, return_image_data, dpc, image_data, dq,
                       dunfinished, dput, dret>>

\* lines 217-219: open or write raises; the thread ends
DownloadWriteFails ==
    \E w \in 1..Len(dworkers) :
        /\ dworkers[w].pc = "write"
        /\ dworkers' = [dworkers EXCEPT ![w].pc = "dead"]
        /\ UNCHANGED <<indexVars, restVars, urls, out_dir, return_image_data, files, dpc, image_data, dq,
                       dunfinished, dput, dret>>

\* lines 221-222: the image is decoded into its slot
DownloadDecodeOk ==
    \E w \in 1..Len(dworkers) :
        /\ dworkers[w].pc = "decode"
        /\ image_data' = [image_data EXCEPT ![dworkers[w].index + 1] =
                             Imread(dworkers[w].url)]
        /\ dworkers' = [dworkers EXCEPT ![w].pc = "task_done"]
        /\ UNCHANGED <<indexVars, restVars, urls, out_dir, return_image_data, files, dpc, dq, dunfinished,
                       dput, dret>>

\* line 222: imread raises; the thread ends
DownloadDecodeFails ==
    \E w \in 1..Len(dworkers) :
        /\ dworkers[w].pc = "decode"
        /\ dworkers' = [dworkers EXCEPT ![w].pc = "dead"]
        /\ UNCHANGED <<indexVars, restVars, urls, out_dir, return_image_data, files, dpc, image_data, dq,
                       dunfinished, dput, dret>>

\* line 223
DownloadTaskDone ==
    \E w \in 1..Len(dworkers) :
        /\ dworkers[w].pc = "task_done"
        /\ dunfinished' = dunfinished - 1
        /\ dworkers' = [dworkers EXCEPT ![w].pc = "get"]
        /\ UNCHANGED <<indexVars, restVars, urls, out_dir, return_image_data, files, dpc, image_data, dq,
                       dput, dret>>

DownloadNext ==
    \/ DownloadSetup
    \/ StartDownloadRunner
    \/ DownloadThreadsStarted
    \/ PutUrl
    \/ PutUrlsDone
    \/ DownloadJoinAndReturn
    \/ DownloadGet
    \/ DownloadRequestOk
    \/ DownloadRequestFails
    \/ DownloadWriteOk
    \/ DownloadWriteFails
    \/ DownloadDecodeOk
    \/ DownloadDecodeFails
    \/ DownloadTaskDone

InitDownload == IndexIdle /\ DownloadInit /\ RestIdle

SpecDownload == InitDownload /\ [][DownloadNext]_vars

(***************************************************************************)
(* Definitions used to state the properties of downloadImages.             *)
(***************************************************************************)
SomeDownloadRunnerDead == \E w \in 1..Len(dworkers) : dworkers[w].pc = "dead"

\* the caller waits in q.join() or in q.put() and no thread can take a step
DownloadBlockedForever ==
    /\ \/ dpc = "join" /\ ~DownloadJoinReady(dunfinished)
       \/ dpc = "put" /\ dput < Len(urls) /\ PutBlocks(dq)
    /\ \A w \in 1..Len(dworkers) :
          \/ dworkers[w].pc = "dead"
          \/ dworkers[w].pc = "get" /\ dq = <<>>

(***************************************************************************)
(* C3: a batch call returns to its caller for every number of tasks and    *)
(* every set of failing tasks: downloadImages is never left waiting in     *)
(* q.join() or in a put on the bounded queue with no thread able to run.   *)
(***************************************************************************)
C3_BatchCallReturns == ~DownloadBlockedForever

(***************************************************************************)
(* C4: a failure inside a task is caught at the task boundary: no          *)
(* exception escapes a worker, so no worker thread of a batch ever dies,   *)
(* and every task that was put on the queue is eventually marked done.     *)
(***************************************************************************)
C4_FailureStaysInTask == ~SomeDownloadRunnerDead

(***************************************************************************)
(* C11: when the total declared in the first page exceeds max_skip and no  *)
(* fetch fails, index does not fail and does not stay blocked: once its    *)
(* threads have nothing left to do it has returned, with one page for      *)
(* every window of [skip0, max_skip) in window order; no request ever      *)
(* reaches beyond max_skip.                                                *)
(***************************************************************************)
C11_TruncatedCallReturnsAllWindows ==
    (initial_resp_json # EmptySlot /\ initial_resp_json.total > max_skip
        /\ ~SomeRunnerDead) =>
        /\ pc # "raised" /\ exc = "None"
        /\ \A i \in 1..Len(requested) :
              /\ requested[i].skip < max_skip
              /\ requested[i].skip + requested[i].limit <= max_skip
        /\ IndexQuiescent => pc = "returned"
        /\ pc = "returned" =>
              ret = [k \in 1..(WindowsAfterFirst + 1) |->
                        ServerPage(WindowAt(k - 1), total)]

\* a truncated call that returned three pages or more
C11_Witness ==
    /\ pc = "returned" /\ total > max_skip
    /\ warned = 1
    /\ Len(ret) >= 3

(***************************************************************************)
(* C12: if the fetch of the first page fails, index ends with that error:  *)
(* it has raised, no page was decoded, no worker thread was started,       *)
(* nothing was put on the queue, and the failed request is the only one    *)
(* that was sent.                                                          *)
(***************************************************************************)
C12_FirstPageFailureIsFatal ==
    /\ (pc \notin {"build", "first"} /\ initial_resp_json = EmptySlot) =>
          /\ pc = "raised" /\ exc # "None"
          /\ ret = <<>>
          /\ Len(workers) = 0 /\ q = <<>> /\ unfinished = 0
          /\ Len(requested) <= 1
          /\ Len(requested) = 1 => exc = "HTTPError"
    /\ exc = "HTTPError" => (pc = "raised" /\ initial_resp_json = EmptySlot)

C12_Witness == pc = "raised" /\ exc = "HTTPError" /\ Len(requested) = 1

(***************************************************************************)
(* Observations.preview of helios/observations.py: the ids are handed to   *)
(* a ThreadPool when more than one thread is to be used, otherwise the     *)
(* caller runs the worker itself on the first id.  The worker returns the  *)
(* redirect url, None for a dud image, or -1 after an error.               *)
(***************************************************************************)
\* largest number of observation ids handed to preview
MaxIds == 3

\* the values of self.max_threads that are modelled
ThreadLimits == {1, 2, 20}

\* the id at position i (0-based) of observation_ids
ObsId(i) == 100 + i

\* resp.url[0:resp.url.index('?')] of the preview of an observation
RedirectUrl(id) == [redirect_of |-> id]

\* a slot that no call of the worker has filled yet
Pending == [kind |-> "pending", url |-> RedirectUrl(0)]

\* "return -1"
MinusOne == [kind |-> "minus_one", url |-> RedirectUrl(0)]

\* "return None", the image is a dud
DudImage == [kind |-> "none", url |-> RedirectUrl(0)]

\* "return redirect_url"
UrlResult(id) == [kind |-> "url", url |-> RedirectUrl(id)]

\* the pool has as many threads as there are ids
PreviewNumThreads_NoLimit(mt, n) == n

\* line 88: num_threads = min(self.max_threads, n_obs)
PreviewNumThreads(mt, n) == Min(mt, n)

\* every result is kept
RemoveErrors_KeepAll(res) == res

\* line 99: results = [x for x in results if x != -1]
RemoveErrors(res) == SelectSeq(res, LAMBDA x : x # MinusOne)

PreviewInit ==
    /\ \E n \in 0..MaxIds : observation_ids = [i \in 1..n |-> ObsId(i - 1)]
    /\ check_for_duds \in BOOLEAN
    /\ max_threads \in ThreadLimits
    /\ ppc = "start"
    /\ ptasks = <<>>
    /\ pworkers = <<>>
    /\ presults = <<>>
    /\ pcalls = [i \in 1..Len(observation_ids) |-> 0]
    /\ pret = NoReturn

\* lines 88-94: more than one thread, the ids go to ThreadPool.map
PreviewUsePool ==
    /\ ppc = "start"
    /\ PreviewNumThreads(max_threads, Len(observation_ids)) > 1
    /\ pworkers' = [w \in 1..PreviewNumThreads(max_threads, Len(observation_ids)) |->
                       [pc |-> "idle", index |-> -1, thread |-> TRUE]]
    /\ ptasks' = [i \in 1..Len(observation_ids) |-> i - 1]
    /\ presults' = [i \in 1..Len(observation_ids) |-> Pending]
    /\ ppc' = "map"
    /\ UNCHANGED <<notPreview, observation_ids, check_for_duds,
                   max_threads, pcalls, pret>>

\* line 96: no pool, the caller calls the worker for observation_ids[0]
PreviewDirect ==
    /\ ppc = "start"
    /\ PreviewNumThreads(max_threads, Len(observation_ids)) <= 1
    /\ Len(observation_ids) >= 1
    /\ pworkers' = <<[pc |-> "request", index |-> 0, thread |-> FALSE]>>
    /\ pcalls' = [pcalls EXCEPT ![1] = @ + 1]
    /\ presults' = <<Pending>>
    /\ ppc' = "direct"
    /\ UNCHANGED <<notPreview, observation_ids, check_for_duds,
                   max_threads, ptasks, pret>>

\* line 96: observation_ids[0] of an empty list raises IndexError
PreviewDirectNoId ==
    /\ ppc = "start"
    /\ PreviewNumThreads(max_threads, Len(observation_ids)) <= 1
    /\ Len(observation_ids) = 0
    /\ pret' = [kind |-> "IndexError", data |-> <<>>]
    /\ ppc' = "raised"
    /\ UNCHANGED <<notPreview, observation_ids, check_for_duds,
                   max_threads, ptasks, pworkers, presults, pcalls>>

\* ThreadPool: an idle thread takes the next id and calls the worker on it
PoolTake ==
    \E w \in 1..Len(pworkers) :
        /\ pworkers[w].pc = "idle"
        /\ pworkers[w].thread
        /\ ptasks # <<>>
        /\ pworkers' = [pworkers EXCEPT ![w].pc = "request", ![w].index = Head(ptasks)]
        /\ pcalls' = [pcalls EXCEPT ![Head(ptasks) + 1] = @ + 1]
        /\ ptasks' = Tail(ptasks)
        /\ UNCHANGED <<notPreview, observation_ids, check_for_duds,
                       max_threads, ppc, presults, pret>>

\* the worker returns: the result goes to the slot of its id
WorkerReturns(w, value) ==
    /\ presults' = [presults EXCEPT ![pworkers[w].index + 1] = value]
    /\ pworkers' = [pworkers EXCEPT ![w].pc = IF pworkers[w].thread THEN "idle"
                                              ELSE "returned"]

\* lines 122-124: the request succeeds and the url has a '?'
WorkerGetOk ==
    \E w \in 1..Len(pworkers) :
        /\ pworkers[w].pc = "request"
        /\ IF check_for_duds
           THEN /\ pworkers' = [pworkers EXCEPT ![w].pc = "head"]
                /\ UNCHANGED presults
           ELSE WorkerReturns(w, UrlResult(observation_ids[pworkers[w].index + 1]))
        /\ UNCHANGED <<notPreview, observation_ids, check_for_duds,
                       max_threads, ppc, ptasks, pcalls, pret>>

\* lines 122-126: the request or the search of '?' raises, the worker returns -1
WorkerGetFails ==
    \E w \in 1..Len(pworkers) :
        /\ pworkers[w].pc = "request"
        /\ WorkerReturns(w, MinusOne)
        /\ UNCHANGED <<notPreview, observation_ids, check_for_duds,
                       max_threads, ppc, ptasks, pcalls, pret>>

\* lines 129-142: the head request succeeds and the image is no dud
WorkerHeadOk ==
    \E w \in 1..Len(pworkers) :
        /\ pworkers[w].pc = "head"
        /\ WorkerReturns(w, UrlResult(observation_ids[pworkers[w].index + 1]))
        /\ UNCHANGED <<notPreview, observation_ids, check_for_duds,
                       max_threads, ppc, ptasks, pcalls, pret>>

\* lines 137-140: the headers tell a dud image, the worker returns None
WorkerHeadDud ==
    \E w \in 1..Len(pworkers) :
        /\ pworkers[w].pc = "head"
        /\ WorkerReturns(w, DudImage)
        /\ UNCHANGED <<notPreview, observation_ids, check_for_duds,
                       max_threads, ppc, ptasks, pcalls, pret>>

\* lines 130-135: the head request raises, the worker returns -1
WorkerHeadFails ==
    \E w \in 1..Len(pworkers) :
        /\ pworkers[w].pc = "head"
        /\ WorkerReturns(w, MinusOne)
        /\ UNCHANGED <<notPreview, observation_ids, check_for_duds,
                       max_threads, ppc, ptasks, pcalls, pret>>

\* lines 92-94: map returns when every id has its result
MapReturns ==
    /\ ppc = "map"
    /\ \A i \in 1..Len(presults) : presults[i] # Pending
    /\ ppc' = "filter"
    /\ UNCHANGED <<notPreview, observation_ids, check_for_duds,
                   max_threads, ptasks, pworkers, presults, pcalls, pret>>

\* line 96: the call of the worker has returned
DirectReturns ==
    /\ ppc = "direct"
    /\ pworkers[1].pc = "returned"
    /\ ppc' = "filter"
    /\ UNCHANGED <<notPreview, observation_ids, check_for_duds,
                   max_threads, ptasks, pworkers, presults, pcalls, pret>>

\* lines 98-113: remove the errors; -1 when nothing is left
PreviewFilterAndReturn ==
    /\ ppc = "filter"
    /\ pret' = IF Len(RemoveErrors(presults)) = 0
               THEN [kind |-> "minus_one", data |-> <<>>]
               ELSE [kind |-> "list", data |-> RemoveErrors(presults)]
    /\ ppc' = "returned"
    /\ UNCHANGED <<notPreview, observation_ids, check_for_duds,
                   max_threads, ptasks, pworkers, presults, pcalls>>

PreviewNext ==
    \/ PreviewUsePool
    \/ PreviewDirect
    \/ PreviewDirectNoId
    \/ PoolTake
    \/ WorkerGetOk
    \/ WorkerGetFails
    \/ WorkerHeadOk
    \/ WorkerHeadDud
    \/ WorkerHeadFails
    \/ MapReturns
    \/ DirectReturns
    \/ PreviewFilterAndReturn

InitPreview ==
    IndexIdle /\ DownloadIdle /\ PreviewInit /\ ContainerIdle /\ MessagesIdle /\ SessionStarted
        /\ LaterIdle

SpecPreview == InitPreview /\ [][PreviewNext]_vars

(***************************************************************************)
(* C13: a batch of N tasks gives a result of exactly N entries and entry i *)
(* belongs to input i, whatever the completion order and whichever tasks   *)
(* fail.  For preview: when the call has returned, the result is a list as *)
(* long as observation_ids and a url at position i is the redirect url of  *)
(* observation_ids[i].                                                     *)
(***************************************************************************)
C13_OneEntryPerTask ==
    ppc = "returned" =>
        /\ pret.kind = "list"
        /\ Len(pret.data) = Len(observation_ids)
        /\ \A i \in 1..Len(pret.data) :
              pret.data[i].kind = "url" =>
                  pret.data[i].url = RedirectUrl(observation_ids[i])

(***************************************************************************)
(* DataContainer of helios/core/structure.py: a list of records with the   *)
(* views failed, succeeded and results, and item deletion and assignment.  *)
(***************************************************************************)
\* largest number of records of a container
MaxRecords == 3

\* None
None == "None"

\* the messages, contents and errors the records are built from
Messages == {1, 2}
Contents == {None, "image"}
Errors == {None, "RequestException"}

\* Record(message, content, error)
Record(m, c, e) == [message |-> m, content |-> c, error |-> e]

Records == {Record(m, c, e) : m \in Messages, c \in Contents, e \in Errors}

\* a record is ok when it has content
RecordOk_FromContent(x) == x.content # None

\* Record.ok: False if self.error is truthy, True otherwise
RecordOk(x) == ~(x.error # None)

\* the records without content
Failed_NoContent(rd) == SelectSeq(rd, LAMBDA x : x.content = None)

\* DataContainer.failed: [x for x in self._raw_data if not x.ok]
Failed(rd) == SelectSeq(rd, LAMBDA x : ~RecordOk(x))

\* DataContainer.succeeded: [x for x in self._raw_data if x.ok]
Succeeded(rd) == SelectSeq(rd, LAMBDA x : RecordOk(x))

\* the content of x, for x in a list
ContentOf(rd) == [i \in 1..Len(rd) |-> rd[i].content]

\* DataContainer.results: [x.content for x in self._raw_data if x.ok]
Results(rd) == ContentOf(Succeeded(rd))

\* the indices a Python list of length n accepts, negative ones included
ValidIndex(index, n) == -n <= index /\ index < n

\* the 1-based position that a valid Python index denotes
Position(index, n) == IF index >= 0 THEN index + 1 ELSE n + index + 1

\* the list is cut off at the position
DelAt_CutsOff(rd, p) == SubSeq(rd, 1, p - 1)

\* del lst[index]
DelAt(rd, p) == [i \in 1..(Len(rd) - 1) |-> IF i < p THEN rd[i] ELSE rd[i + 1]]

\* DataContainer(records)
ContainerInit ==
    /\ \E n \in 0..MaxRecords : raw_data \in [1..n -> Records]
    /\ got = [op |-> "none", value |-> <<>>]

\* lines 67-70: container.failed
ReadFailed ==
    /\ got' = [op |-> "failed", value |-> Failed(raw_data)]
    /\ UNCHANGED <<notContainer, raw_data>>

\* lines 72-75: container.succeeded
ReadSucceeded ==
    /\ got' = [op |-> "succeeded", value |-> Succeeded(raw_data)]
    /\ UNCHANGED <<notContainer, raw_data>>

\* lines 77-80: container.results
ReadResults ==
    /\ got' = [op |-> "results", value |-> Results(raw_data)]
    /\ UNCHANGED <<notContainer, raw_data>>

\* lines 85-86: del container[index]
DelItem ==
    \E index \in (-MaxRecords)..(MaxRecords - 1) :
        /\ ValidIndex(index, Len(raw_data))
        /\ raw_data' = DelAt(raw_data, Position(index, Len(raw_data)))
        /\ got' = [op |-> "delitem", value |-> <<>>]
        /\ UNCHANGED notContainer

\* lines 85-86: del container[index] with an index out of range
DelItemOutOfRange ==
    \E index \in (-MaxRecords - 1)..MaxRecords :
        /\ ~ValidIndex(index, Len(raw_data))
        /\ got' = [op |-> "IndexError", value |-> <<>>]
        /\ UNCHANGED <<notContainer, raw_data>>

\* lines 121-122: container[index] = value
SetItem ==
    \E index \in (-MaxRecords)..(MaxRecords - 1), value \in Records :
        /\ ValidIndex(index, Len(raw_data))
        /\ raw_data' = [raw_data EXCEPT ![Position(index, Len(raw_data))] = value]
        /\ got' = [op |-> "setitem", value |-> <<>>]
        /\ UNCHANGED notContainer

\* lines 121-122: container[index] = value with an index out of range
SetItemOutOfRange ==
    \E index \in (-MaxRecords - 1)..MaxRecords :
        /\ ~ValidIndex(index, Len(raw_data))
        /\ got' = [op |-> "IndexError", value |-> <<>>]
        /\ UNCHANGED <<notContainer, raw_data>>

(***************************************************************************)
(* DataContainer.__getattr__: Python calls it for a name that the usual    *)
(* lookup does not find on the container.                                  *)
(***************************************************************************)
\* the attributes of a Record: the fields set by __init__ and the property ok
RecordAttributes == {"message", "content", "error", "ok"}

\* names that a caller may ask a container for and that neither the
\* container nor a Record defines
UndefinedNames == {"errors", "output"}

\* getattr(x, item) for an attribute that the record has
GetAttrOf(x, item) ==
    CASE item = "message" -> x.message
      [] item = "content" -> x.content
      [] item = "error" -> x.error
      [] item = "ok" -> RecordOk(x)

\* the attribute of the records that are ok
Projection_OfSucceeded(rd, item) ==
    [i \in 1..Len(Succeeded(rd)) |-> GetAttrOf(Succeeded(rd)[i], item)]

\* line 101: [getattr(x, item) for x in self._raw_data]
Projection(rd, item) == [i \in 1..Len(rd) |-> GetAttrOf(rd[i], item)]

\* lines 88-101: every record has the attribute; so it is for any name
\* when the container has no record
GetAttr ==
    \E item \in RecordAttributes \cup UndefinedNames :
        /\ raw_data = <<>> \/ item \in RecordAttributes
        /\ got' = [op |-> "getattr", item |-> item, value |-> Projection(raw_data, item)]
        /\ UNCHANGED <<notContainer, raw_data>>

\* line 101: getattr raises AttributeError for the first record
GetAttrRaises ==
    \E item \in UndefinedNames :
        /\ raw_data # <<>>
        /\ got' = [op |-> "AttributeError", item |-> item, value |-> <<>>]
        /\ UNCHANGED <<notContainer, raw_data>>

ContainerNext ==
    \/ ReadFailed
    \/ ReadSucceeded
    \/ ReadResults
    \/ DelItem
    \/ DelItemOutOfRange
    \/ SetItem
    \/ SetItemOutOfRange
    \/ GetAttr
    \/ GetAttrRaises

InitContainer ==
    IndexIdle /\ DownloadIdle /\ PreviewIdle /\ ContainerInit /\ MessagesIdle /\ SessionStarted
        /\ LaterIdle

SpecContainer == InitContainer /\ [][ContainerNext]_vars

\* the positions of the records of the container that carry an error
ErrorPositions == {i \in 1..Len(raw_data) : raw_data[i].error # None}

\* the positions of the records of the container that carry no error
CleanPositions == (1..Len(raw_data)) \ ErrorPositions

\* the number of positions of S up to i
Rank(i, S) == Cardinality({j \in S : j <= i})

\* lst holds exactly the records at the positions S, in the order of the container
HoldsExactly(lst, S) ==
    /\ Len(lst) = Cardinality(S)
    /\ \A i \in S : lst[Rank(i, S)] = raw_data[i]

(***************************************************************************)
(* C14: succeeded and failed partition the records of a DataContainer:     *)
(* failed holds exactly the records with an error and succeeded exactly    *)
(* the others, each in the order of the container, so that the two lengths *)
(* add up to the length of the container.                                  *)
(***************************************************************************)
C14_SucceededFailedPartition ==
    /\ got.op = "failed" =>
          /\ HoldsExactly(got.value, ErrorPositions)
          /\ Len(got.value) + Len(Succeeded(raw_data)) = Len(raw_data)
    /\ got.op = "succeeded" =>
          /\ HoldsExactly(got.value, CleanPositions)
          /\ Len(got.value) + Len(Failed(raw_data)) = Len(raw_data)
    /\ HoldsExactly(Failed(raw_data), ErrorPositions)
    /\ HoldsExactly(Succeeded(raw_data), CleanPositions)

\* failed has been read from a container whose first and last records are
\* ok and whose middle record is not
C14_Witness ==
    /\ got.op = "failed"
    /\ Len(raw_data) = 3
    /\ Len(got.value) = 1
    /\ raw_data[2].error # None
    /\ raw_data[1].content = None

(***************************************************************************)
(* Observations.preview of helios/observations_api.py.  One Message per    *)
(* observation id goes to _process_messages with __preview_worker; the     *)
(* worker gives an ImageRecord.  _process_messages is in                   *)
(* helios/core/mixins.py, which is not among the sources: it is modelled   *)
(* after the TaskExecutor of section 4.3 of the specification.             *)
(***************************************************************************)
\* TaskExecutor: the default ceiling of the number of workers
MaxParallelism == 20

\* Message(x, out_dir, return_image_data)
Message(x, od, rid) == [observation_id |-> x, out_dir |-> od, return_image_data |-> rid]

\* ImageRecord(message, content, error, name, output_file)
ImageRecord(m, c, e, nm, of) ==
    [message |-> m, content |-> c, error |-> e, name |-> nm, output_file |-> of]

\* a slot of the records that no task has filled yet
NoRecord == ImageRecord(Message(0, None, FALSE), None, "pending", None, None)

\* TaskExecutor: a failure of the worker becomes a record with error set
BoundaryRecord(m, e) == ImageRecord(m, None, e, None, None)

\* TaskExecutor: min(max_parallelism, len(tasks)) workers
ProcessNumWorkers(n) == Min(MaxParallelism, n)

PreviewApiInit ==
    /\ \E n \in 0..MaxIds, od \in {None, "dir"}, rid \in BOOLEAN :
          messages = [i \in 1..n |-> Message(ObsId(i - 1), od, rid)]
    /\ mpc = "start"
    /\ mtasks = <<>>
    /\ mworkers = <<>>
    /\ mrecords = <<>>
    /\ mfiles = {}
    /\ mret = [content |-> <<>>, records |-> <<>>]

\* TaskExecutor: no task, an empty result at once and no worker
ProcessNoMessages ==
    /\ mpc = "start"
    /\ messages = <<>>
    /\ mpc' = "collect"
    /\ UNCHANGED <<notMessages, messages, mtasks, mworkers, mrecords, mfiles, mret>>

\* TaskExecutor: the workers are started, one slot per task is allocated
ProcessMessages ==
    /\ mpc = "start"
    /\ messages # <<>>
    /\ mworkers' = [w \in 1..ProcessNumWorkers(Len(messages)) |->
                       [pc |-> "idle", index |-> -1, out_file |-> None, img_data |-> None]]
    /\ mtasks' = [i \in 1..Len(messages) |-> i - 1]
    /\ mrecords' = [i \in 1..Len(messages) |-> NoRecord]
    /\ mpc' = "join"
    /\ UNCHANGED <<notMessages, messages, mfiles, mret>>

\* TaskExecutor: a worker claims the next unclaimed task
ClaimMessage ==
    \E w \in 1..Len(mworkers) :
        /\ mworkers[w].pc = "idle"
        /\ mtasks # <<>>
        /\ mworkers' = [mworkers EXCEPT ![w] = [pc |-> "request", index |-> Head(mtasks),
                                                out_file |-> None, img_data |-> None]]
        /\ mtasks' = Tail(mtasks)
        /\ UNCHANGED <<notMessages, messages, mpc, mrecords, mfiles, mret>>

\* the message that worker w works on
MessageOf(w) == messages[mworkers[w].index + 1]

\* TaskExecutor: the record goes to the slot of the task, the worker is free
WriteSlot(w, record) ==
    /\ mrecords' = [mrecords EXCEPT ![mworkers[w].index + 1] = record]
    /\ mworkers' = [mworkers EXCEPT ![w].pc = "idle"]

\* lines 142-149: the request succeeds
PreviewGetOk ==
    \E w \in 1..Len(mworkers) :
        /\ mworkers[w].pc = "request"
        /\ mworkers' = [mworkers EXCEPT ![w].pc =
                           IF MessageOf(w).out_dir # None THEN "write"
                           ELSE IF MessageOf(w).return_image_data THEN "decode"
                           ELSE "return"]
        /\ UNCHANGED <<notMessages, messages, mpc, mtasks, mrecords, mfiles, mret>>

\* lines 144-145: a RequestException gives a record with the error
PreviewGetFails ==
    \E w \in 1..Len(mworkers) :
        /\ mworkers[w].pc = "request"
        /\ WriteSlot(w, ImageRecord(MessageOf(w), None, "RequestException", None, None))
        /\ UNCHANGED <<notMessages, messages, mpc, mtasks, mfiles, mret>>

\* lines 152-155: the body is written to out_dir/image_name
PreviewWriteOk ==
    \E w \in 1..Len(mworkers) :
        /\ mworkers[w].pc = "write"
        /\ mfiles' = mfiles \cup {MessageOf(w).observation_id}
        /\ mworkers' = [mworkers EXCEPT
                           ![w].pc = IF MessageOf(w).return_image_data THEN "decode"
                                     ELSE "return",
                           ![w].out_file = "file"]
        /\ UNCHANGED <<notMessages, messages, mpc, mtasks, mrecords, mret>>

\* lines 154-155: open or write raises and the worker does not catch it
PreviewWriteFails ==
    \E w \in 1..Len(mworkers) :
        /\ mworkers[w].pc = "write"
        /\ WriteSlot(w, BoundaryRecord(MessageOf(w), "IOError"))
        /\ UNCHANGED <<notMessages, messages, mpc, mtasks, mfiles, mret>>

\* lines 160-162: the body is decoded to an array
PreviewDecodeOk ==
    \E w \in 1..Len(mworkers) :
        /\ mworkers[w].pc = "decode"
        /\ mworkers' = [mworkers EXCEPT ![w].pc = "return", ![w].img_data = "image"]
        /\ UNCHANGED <<notMessages, messages, mpc, mtasks, mrecords, mfiles, mret>>

\* line 162: Image.open raises and the worker does not catch it
PreviewDecodeFails ==
    \E w \in 1..Len(mworkers) :
        /\ mworkers[w].pc = "decode"
        /\ WriteSlot(w, BoundaryRecord(MessageOf(w), "DecodeError"))
        /\ UNCHANGED <<notMessages, messages, mpc, mtasks, mfiles, mret>>

\* lines 166-167: the record of a task without error
PreviewWorkerReturns ==
    \E w \in 1..Len(mworkers) :
        /\ mworkers[w].pc = "return"
        /\ WriteSlot(w, ImageRecord(MessageOf(w), mworkers[w].img_data, None,
                                    "name", mworkers[w].out_file))
        /\ UNCHANGED <<notMessages, messages, mpc, mtasks, mfiles, mret>>

\* TaskExecutor: the call blocks until every task has its record
ProcessJoin ==
    /\ mpc = "join"
    /\ \A i \in 1..Len(mrecords) : mrecords[i] # NoRecord
    /\ mpc' = "collect"
    /\ UNCHANGED <<notMessages, messages, mtasks, mworkers, mrecords, mfiles, mret>>

\* lines 128-133: ImageCollection(content of the ok records, results)
PreviewApiReturns ==
    /\ mpc = "collect"
    /\ mret' = [content |-> Results(mrecords), records |-> mrecords]
    /\ mpc' = "returned"
    /\ UNCHANGED <<notMessages, messages, mtasks, mworkers, mrecords, mfiles>>

PreviewApiNext ==
    \/ ProcessNoMessages
    \/ ProcessMessages
    \/ ClaimMessage
    \/ PreviewGetOk
    \/ PreviewGetFails
    \/ PreviewWriteOk
    \/ PreviewWriteFails
    \/ PreviewDecodeOk
    \/ PreviewDecodeFails
    \/ PreviewWorkerReturns
    \/ ProcessJoin
    \/ PreviewApiReturns

InitPreviewApi ==
    IndexIdle /\ DownloadIdle /\ PreviewIdle /\ ContainerIdle /\ PreviewApiInit /\ SessionStarted
        /\ LaterIdle

SpecPreviewApi == InitPreviewApi /\ [][PreviewApiNext]_vars

\* the records the tasks have produced so far
Produced == {mrecords[i] : i \in {j \in 1..Len(mrecords) : mrecords[j] # NoRecord}}

\* the records among them that __preview_worker has returned (lines 145, 166)
ByWorker == {x \in Produced : x.error \in {None, "RequestException"}}

FailedTasks == {i - 1 : i \in {j \in 1..Len(presults) : presults[j] = MinusOne}}

(***************************************************************************)
(* C16: a batch preview of N ids in which the tasks of a set F fail gives  *)
(* N records; the failed ones are exactly those of F and the succeeded     *)
(* ones are the others in their original order (5 ids with task 3 failing: *)
(* 5 records, 1 failed, 4 succeeded).  For preview: the returned value is  *)
(* a list that holds one failed entry per task of F and the results of the *)
(* other tasks in the order of the ids.                                    *)
(***************************************************************************)
C16_FailedTasksReported ==
    ppc = "returned" =>
        /\ pret.kind = "list"
        /\ Len(SelectSeq(pret.data, LAMBDA x : x = MinusOne)) = Cardinality(FailedTasks)
        /\ SelectSeq(pret.data, LAMBDA x : x # MinusOne)
              = SelectSeq(presults, LAMBDA x : x # MinusOne)

(***************************************************************************)
(* C17: a batch call with an empty task list returns an empty result at    *)
(* once: it does not raise, starts no worker and does not call the worker  *)
(* function.  For preview with an empty list of ids: once the call has     *)
(* left its first line it has returned the empty list, with no worker.     *)
(***************************************************************************)
C17_EmptyBatchReturnsEmpty ==
    (Len(observation_ids) = 0 /\ ppc # "start") =>
        /\ ppc = "returned"
        /\ pret = [kind |-> "list", data |-> <<>>]
        /\ pworkers = <<>>

(***************************************************************************)
(* C18: a batch of exactly one task with a maximum parallelism of 20       *)
(* returns, without error, a result of one element, which is the value     *)
(* that the worker gave for the task.                                      *)
(***************************************************************************)
C18_OneTaskOneEntry ==
    (Len(observation_ids) = 1 /\ max_threads = MaxThreads /\ ppc = "returned") =>
        /\ pret.kind = "list"
        /\ pret.data = presults
        /\ Len(pret.data) = 1

(***************************************************************************)
(* C19: the number of worker threads started for a batch is                *)
(* min(max_parallelism, number of tasks submitted).  For index: once the   *)
(* threads are started, there are min(20, number of queries that are put   *)
(* on the queue) of them.                                                  *)
(***************************************************************************)
C19_ThreadsMatchEnqueuedQueries ==
    pc \in {"put", "join", "returned"} =>
        Len(workers) = Min(MaxThreads, Len(results))

\* the number of the threads ws that are inside a request
InFlight(ws, pcs) == Cardinality({w \in 1..Len(ws) : ws[w].pc \in pcs})

QueriesPut == IF pc \in {"put", "join", "returned"} THEN Len(results) - Len(queries) ELSE 0

\* the items of a queue are the n last ones that were put, in the order of the puts
LastPutInOrder(queue, put) ==
    \A k \in 1..Len(queue) : queue[k].index = put - Len(queue) + k - 1

(***************************************************************************)
(* C21: tasks are claimed in the order of their submission and a worker    *)
(* writes its result only to the slot whose index was enqueued with the    *)
(* task it claimed.  For index and downloadImages: the queue always holds  *)
(* the tasks put last, in the order of the puts, so that the tasks claimed *)
(* are those put first; a task keeps the index it was put with, in the     *)
(* queue and in the thread that claimed it; and a filled slot holds the    *)
(* result of the task put with its index, which has been claimed.          *)
(***************************************************************************)
C21_ClaimedInSubmissionOrder ==
    /\ LastPutInOrder(q, QueriesPut)
    /\ \A k \in 1..Len(q) : q[k].query = WindowAt(q[k].index + 1)
    /\ \A w \in 1..Len(workers) :
          workers[w].index # -1 =>
              /\ workers[w].query = WindowAt(workers[w].index + 1)
              /\ workers[w].index < QueriesPut - Len(q)
    /\ \A i \in 1..Len(results) :
          results[i] # EmptySlot =>
              /\ results[i] = ServerPage(WindowAt(i), total)
              /\ i - 1 < QueriesPut - Len(q)
    /\ LastPutInOrder(dq, dput)
    /\ \A k \in 1..Len(dq) : dq[k].url = urls[dq[k].index + 1]
    /\ \A w \in 1..Len(dworkers) :
          dworkers[w].index # -1 =>
              /\ dworkers[w].url = urls[dworkers[w].index + 1]
              /\ dworkers[w].index < dput - Len(dq)
    /\ \A i \in 1..Len(image_data) :
          image_data[i] # EmptyImage =>
              /\ image_data[i] = Imread(urls[i])
              /\ i - 1 < dput - Len(dq)

\* two queries wait in the queue of index while the page of a query put
\* before them is already in its slot
C21_Witness ==
    /\ Len(q) = 2
    /\ Len(results) = 3
    /\ results[1] # EmptySlot

C23_UndefinedNameRaises ==
    got.op = "getattr" => got.item \in RecordAttributes

\* the records of the container after the step are those before it
\* without the one at position p
RemovedAt(p) ==
    /\ Len(raw_data') = Len(raw_data) - 1
    /\ \A i \in 1..Len(raw_data') :
          raw_data'[i] = IF i < p THEN raw_data[i] ELSE raw_data[i + 1]

\* the records of the container after the step are those before it but
\* for the one at position p
ReplacedAt(p) ==
    /\ Len(raw_data') = Len(raw_data)
    /\ \A i \in 1..Len(raw_data) : i # p => raw_data'[i] = raw_data[i]

(***************************************************************************)
(* C24: once a container is constructed no operation of the caller changes *)
(* its sequence of records.  As stated.                                    *)
(***************************************************************************)
C24_Original == [][raw_data' = raw_data]_vars

(***************************************************************************)
(* C24, amended: the views failed, succeeded and results, the projection   *)
(* of an attribute and a deletion or assignment that raises leave the      *)
(* sequence of records as it is; del container[i] removes the record at    *)
(* one position and container[i] = value replaces the record at one        *)
(* position, and both leave every other record in its order.               *)
(***************************************************************************)
C24_OnlyDelAndSetItemChangeRecords ==
    [][/\ got'.op \notin {"delitem", "setitem"} => raw_data' = raw_data
       /\ got'.op = "delitem" => \E p \in 1..Len(raw_data) : RemovedAt(p)
       /\ got'.op = "setitem" => \E p \in 1..Len(raw_data) : ReplacedAt(p)]_vars

\* a record has been deleted from a container and two are left
C24_Witness ==
    /\ got.op = "delitem"
    /\ Len(raw_data) = 2

\* the pages that the server holds for a call with the given skip, limit
\* and total: the first page and, when it is full, the pages of the
\* further windows that the total asks for and that start below max_skip
PagesOfCall ==
    LET first == ServerPage(WindowAt(0), total)
        m == IF first.n < limit THEN 0
             ELSE Min(CeilDiv(total - skip, limit) - 1, WindowsAfterFirst)
    IN  [k \in 1..(m + 1) |-> ServerPage(WindowAt(k - 1), total)]

(***************************************************************************)
(* C25: two runs of index with the same skip and limit against the same    *)
(* server return the same list of pages whatever the scheduling: the list  *)
(* that a call returns is fixed by skip, limit and the content of the      *)
(* server alone, it does not depend on the order in which the threads      *)
(* claimed, requested and stored.                                          *)
(***************************************************************************)
C25_ReturnFixedByInputs ==
    pc = "returned" => ret = PagesOfCall

\* a call has returned four pages after it requested the last window
\* before the second one
C25_Witness ==
    /\ pc = "returned"
    /\ Len(ret) = 4
    /\ \E i, j \in 2..Len(requested) :
          i < j /\ requested[i] = WindowAt(3) /\ requested[j] = WindowAt(1)

(***************************************************************************)
(* C26: during an index or batch call no worker writes the shared token:   *)
(* the token is in every state of the call the one the call started with,  *)
(* and every request of the call carries that token.  As stated.           *)
(***************************************************************************)
C26_Original ==
    /\ AUTH_TOKEN = SessionToken
    /\ \A i \in 1..Len(sent_headers) : sent_headers[i] = Header(SessionToken)

(***************************************************************************)
(* C26, amended: during an index or downloadImages call no worker writes   *)
(* the shared token, which is in every state the one the call started      *)
(* with; every request of index, the first one and those of the threads,   *)
(* carries that token, and the requests of downloadImages carry no header. *)
(***************************************************************************)
C26_TokenUntouched ==
    /\ AUTH_TOKEN = SessionToken
    /\ pc # "idle" =>
          /\ Len(sent_headers) = Len(requested)
          /\ \A i \in 1..Len(sent_headers) : sent_headers[i] = Header(SessionToken)
    /\ dpc # "idle" =>
          \A i \in 1..Len(sent_headers) : sent_headers[i] = NoHeaders

\* downloadImages has returned after the requests of two threads
C26_Witness ==
    /\ dpc = "returned"
    /\ Len(sent_headers) >= 2
    /\ Len(dworkers) >= 2
    /\ \A w \in 1..2 : dworkers[w].index # -1

(***************************************************************************)
(* C28: index behaves the same for the response shapes: the warning, the   *)
(* windows requested and the number of pages returned are those that       *)
(* skip, limit and the total fix, whichever shape the server answers with. *)
(***************************************************************************)
C28_SameForBothShapes ==
    /\ pc \in {"size", "threads", "put", "join", "returned"} =>
          warned = IF total > max_skip THEN 1 ELSE 0
    /\ FirstPageKnown => initial_resp_json = ServerPage(WindowAt(0), total)
    /\ \A i \in 1..Len(requested) :
          \E k \in 0..(Len(PagesOfCall) - 1) : requested[i] = WindowAt(k)
    /\ pc = "returned" =>
          /\ Len(ret) = Len(PagesOfCall)
          /\ Len(requested) = Len(PagesOfCall)

\* a call against a server that answers with results and no properties
\* has returned three pages after a warning
C28_Witness ==
    /\ shape = "results"
    /\ pc = "returned"
    /\ warned = 1
    /\ Len(ret) >= 3

(***************************************************************************)
(* SDKCore._parseInputsForQuery of heliosSDK/core/baseClasses.py.  A       *)
(* string is the sequence of its characters; the filter is the sequence of *)
(* its entries in the order in which the dict gives its keys.              *)
(***************************************************************************)
\* largest number of entries of a filter, and of values of a sequence entry
MaxKeys == 2
MaxValues == 2

\* the calls modelled before are not running
EarlierIdle ==
    IndexIdle /\ DownloadIdle /\ PreviewIdle /\ ContainerIdle /\ MessagesIdle
        /\ SessionStarted

\* the keys and the values of the filters, each one character long
KeyNames == {"a", "b", "c"}
ValueNames == {"x", "y"}

\* the values an entry can have: a scalar, or a list or tuple of scalars
EntryValues ==
    {[is_list |-> FALSE, items |-> <<v>>] : v \in ValueNames}
        \cup {[is_list |-> TRUE, items |-> it] :
                 it \in UNION {[1..n -> ValueNames] : n \in 0..MaxValues}}

\* str(x) of a key or a value
Str(x) == <<x>>

\* [str(x) for x in items]
Strs(items) == [i \in 1..Len(items) |-> Str(items[i])]

\* sep.join(strings)
RECURSIVE Join(_, _)
Join(strings, sep) ==
    IF strings = <<>> THEN <<>>
    ELSE IF Len(strings) = 1 THEN strings[1]
    ELSE strings[1] \o sep \o Join(Tail(strings), sep)

\* s[:-1]
DropLast(s) == IF s = <<>> THEN <<>> ELSE SubSeq(s, 1, Len(s) - 1)

\* lines 37-40: what the loop adds to the string for one key
Segment(entry) ==
    IF entry.is_list
    THEN Str(entry.key) \o Join(Strs(entry.items), <<",">>) \o <<"&">>
    ELSE Str(entry.key) \o <<"=">> \o Str(entry.items[1]) \o <<"&">>

QueryInit ==
    /\ \E n \in 0..MaxKeys :
          \E keys \in [1..n -> KeyNames], values \in [1..n -> EntryValues] :
              /\ \A i, j \in 1..n : keys[i] = keys[j] => i = j
              /\ input_dict = [i \in 1..n |->
                                  [key |-> keys[i], is_list |-> values[i].is_list,
                                   items |-> values[i].items]]
    /\ query_str = <<>>
    /\ kpc = "loop"
    /\ kdone = 0

\* lines 36-40: the next key of the dict
ParseKey ==
    /\ kpc = "loop"
    /\ kdone < Len(input_dict)
    /\ query_str' = query_str \o Segment(input_dict[kdone + 1])
    /\ kdone' = kdone + 1
    /\ UNCHANGED <<notQuery, input_dict, kpc>>

\* lines 41-43: query_str[:-1] is returned
StripAndReturn ==
    /\ kpc = "loop"
    /\ kdone >= Len(input_dict)
    /\ query_str' = DropLast(query_str)
    /\ kpc' = "returned"
    /\ UNCHANGED <<notQuery, input_dict, kdone>>

QueryNext ==
    \/ ParseKey
    \/ StripAndReturn

InitQuery == EarlierIdle /\ QueryInit /\ MergeIdle /\ ImagesIdle /\ LastIdle

SpecQuery == InitQuery /\ [][QueryNext]_vars

\* key=value for a scalar entry, key=v1,v2,... for a sequence entry
KeyEqualsValue(entry) == <<entry.key, "=">> \o Join(Strs(entry.items), <<",">>)

(***************************************************************************)
(* C27: the query string of a filter has one segment per key, key=value    *)
(* for a scalar entry and the key with the comma-joined values for a       *)
(* sequence entry, a single '&' between two segments and none at the start *)
(* or the end; it is the empty string for the empty filter.                *)
(***************************************************************************)
C27_QueryString ==
    kpc = "returned" =>
        query_str = Join([i \in 1..Len(input_dict) |-> KeyEqualsValue(input_dict[i])],
                         <<"&">>)

(***************************************************************************)
(* Merging the pages of an index call: Observations.index (the same loop   *)
(* is in Alerts.index over the succeeded records, and in                   *)
(* CamerasIndex._get_features with extend).                                *)
(***************************************************************************)

\* bound: pages of one index call
MaxPages == 3
\* bound: features of one page
MaxFeatures == 2

\* the features a server may put in a page; two pages may hold the same one
FeatureNames == {"f1", "f2"}

\* the payload lists of at most n features
FeatureLists(n) == UNION {[1..k -> FeatureNames] : k \in 0..n}

\* a page that was fetched, with the 'features' of its content
PageRecord(features) == [ok |-> TRUE, features |-> features]

\* a page whose request failed: error set, content None
FailedPage == [ok |-> FALSE, features |-> <<>>]

PageRecords == {PageRecord(f) : f \in FeatureLists(MaxFeatures)} \cup {FailedPage}

\* ObservationsFeature(feature): the wrapper keeps the raw feature as .json
ObservationsFeature(feature) == [json |-> feature]

RECURSIVE AppendFeatures_Dedup(_, _)
\* a merge that drops a feature already in the collection
AppendFeatures_Dedup(list, features) ==
    IF features = <<>> THEN list
    ELSE AppendFeatures_Dedup(
            IF \E k \in 1..Len(list) : list[k] = ObservationsFeature(Head(features))
                THEN list
                ELSE Append(list, ObservationsFeature(Head(features))),
            Tail(features))

RECURSIVE AppendFeatures(_, _)
\* for feature in record.content['features']: content.append(...)
AppendFeatures(list, features) ==
    IF features = <<>> THEN list
    ELSE AppendFeatures(Append(list, ObservationsFeature(Head(features))), Tail(features))

\* results = super().index(**kwargs); content = []
MergeInit ==
    /\ index_results \in UNION {[1..n -> PageRecords] : n \in 0..MaxPages}
    /\ content = <<>>
    /\ gpc = "loop"
    /\ gdone = 0

\* for record in results: if record.ok: append every feature of the page
MergeRecord ==
    /\ gpc = "loop"
    /\ gdone < Len(index_results)
    /\ index_results[gdone + 1].ok
    /\ content' = AppendFeatures(content, index_results[gdone + 1].features)
    /\ gdone' = gdone + 1
    /\ UNCHANGED <<notMerge, index_results, gpc>>

\* for record in results: a record that is not ok adds nothing
SkipFailedRecord ==
    /\ gpc = "loop"
    /\ gdone < Len(index_results)
    /\ ~index_results[gdone + 1].ok
    /\ gdone' = gdone + 1
    /\ UNCHANGED <<notMerge, index_results, content, gpc>>

\* return ObservationsFeatureCollection(content, results)
MergeReturn ==
    /\ gpc = "loop"
    /\ gdone >= Len(index_results)
    /\ gpc' = "returned"
    /\ UNCHANGED <<notMerge, index_results, content, gdone>>

MergeNext ==
    \/ MergeRecord
    \/ SkipFailedRecord
    \/ MergeReturn

InitMerge == EarlierIdle /\ QueryIdle /\ MergeInit /\ ImagesIdle /\ LastIdle

SpecMerge == InitMerge /\ [][MergeNext]_vars

RECURSIVE PayloadBefore(_)
\* the number of payload items in the pages before page i
PayloadBefore(i) ==
    IF i <= 1 THEN 0 ELSE PayloadBefore(i - 1) + Len(index_results[i - 1].features)

(***************************************************************************)
(* C29: the merged collection is the concatenation of the pages' payload   *)
(* lists in page order, nothing dropped and nothing moved: its length is   *)
(* the sum of the payload lengths, and item j of page i is at the place    *)
(* after all the items of the pages before i and the j-1 items before it.  *)
(***************************************************************************)
C29_MergeIsConcatenation ==
    gpc = "returned" =>
        /\ Len(content) = PayloadBefore(Len(index_results) + 1)
        /\ \A i \in 1..Len(index_results) :
            \A j \in 1..Len(index_results[i].features) :
                content[PayloadBefore(i) + j].json = index_results[i].features[j]

\* three pages were merged, two of them holding the same feature, one failed between
C29_Witness ==
    /\ gpc = "returned"
    /\ Len(index_results) = 3
    /\ index_results[1].features = <<"f1", "f2">>
    /\ ~index_results[2].ok
    /\ index_results[3].features = <<"f2", "f1">>
    /\ Len(content) = 4

(***************************************************************************)
(* Cameras.images: the image times of a camera from start_time on, up to   *)
(* end_time when one is given.  Times are integers; the media cache holds  *)
(* them in strictly increasing order and answers a request with the first  *)
(* `limit` times that are not before the requested time.                   *)
(***************************************************************************)

\* bound: the latest image time
MaxTime == 4
\* bound: the largest limit of a call
MaxLimit == 3

\* end_time=None
NoEnd == 0

RECURSIVE Ascending(_)
\* the times of a set as the strictly increasing list the media cache holds
Ascending(S) ==
    IF S = {} THEN <<>>
    ELSE LET m == CHOOSE x \in S : \A y \in S : x <= y
         IN  <<m>> \o Ascending(S \ {m})

\* the first n entries of a list
FirstN(list, n) == SubSeq(list, 1, Min(n, Len(list)))

\* resp.json()['times'] of images?time=<time>&limit=<n>
TimesResponse(time, n) ==
    LET NotBefore(t) == t >= time IN FirstN(SelectSeq(server_times, NotBefore), n)

\* a response without its last time
AllButLast(times) == SubSeq(times, 1, Len(times) - 1)

\* the request of one loop iteration
ImageRequest == [time |-> start_time, limit |-> images_limit]

\* images(camera_id, start_time, end_time=None, limit=500): image_times = []
ImagesInit ==
    /\ server_times \in {Ascending(S) : S \in SUBSET (1..MaxTime)}
    /\ start_time \in 1..MaxTime
    /\ end_time \in {NoEnd} \cup (1..MaxTime)
    /\ images_limit \in 1..MaxLimit
    /\ image_times = <<>>
    /\ ipc = "loop"
    /\ image_requests = <<>>

\* if end_time is None: image_times.extend(times); break, dropping the last time
ImagesNoEndTime_DropsLast ==
    /\ ipc = "loop"
    /\ end_time = NoEnd
    /\ image_requests' = Append(image_requests, ImageRequest)
    /\ image_times' = image_times \o AllButLast(TimesResponse(start_time, images_limit))
    /\ ipc' = "done"
    /\ UNCHANGED <<notImages, server_times, start_time, end_time, images_limit>>

\* if end_time is None: image_times.extend(times); break
ImagesNoEndTime ==
    /\ ipc = "loop"
    /\ end_time = NoEnd
    /\ image_requests' = Append(image_requests, ImageRequest)
    /\ image_times' = image_times \o TimesResponse(start_time, images_limit)
    /\ ipc' = "done"
    /\ UNCHANGED <<notImages, server_times, start_time, end_time, images_limit>>

\* times[-1] raises IndexError on an empty response: break
ImagesNoTimes ==
    /\ ipc = "loop"
    /\ end_time # NoEnd
    /\ TimesResponse(start_time, images_limit) = <<>>
    /\ image_requests' = Append(image_requests, ImageRequest)
    /\ ipc' = "done"
    /\ UNCHANGED <<notImages, server_times, start_time, end_time, images_limit, image_times>>

\* a loop that keeps all but the last time and asks again from the same start_time
ImagesKeepLooking_SameStart ==
    /\ ipc = "loop"
    /\ end_time # NoEnd
    /\ LET times == TimesResponse(start_time, images_limit) IN
        /\ Len(times) > 1
        /\ times[Len(times)] < end_time
        /\ image_times' = image_times \o AllButLast(times)
    /\ image_requests' = Append(image_requests, ImageRequest)
    /\ UNCHANGED <<notImages, server_times, start_time, end_time, images_limit, ipc>>

\* last < end and len(times) > 1: keep all but the last time, ask again from the last
ImagesKeepLooking ==
    /\ ipc = "loop"
    /\ end_time # NoEnd
    /\ LET times == TimesResponse(start_time, images_limit) IN
        /\ Len(times) > 1
        /\ times[Len(times)] < end_time
        /\ image_times' = image_times \o AllButLast(times)
        /\ start_time' = times[Len(times)]
    /\ image_requests' = Append(image_requests, ImageRequest)
    /\ UNCHANGED <<notImages, server_times, end_time, images_limit, ipc>>

\* last < end and len(times) <= 1: keep the time and break
ImagesSingleTime ==
    /\ ipc = "loop"
    /\ end_time # NoEnd
    /\ LET times == TimesResponse(start_time, images_limit) IN
        /\ Len(times) = 1
        /\ times[Len(times)] < end_time
        /\ image_times' = image_times \o times
    /\ image_requests' = Append(image_requests, ImageRequest)
    /\ ipc' = "done"
    /\ UNCHANGED <<notImages, server_times, start_time, end_time, images_limit>>

\* last > end: keep the times before the end and break
ImagesEndInBetween ==
    /\ ipc = "loop"
    /\ end_time # NoEnd
    /\ LET times == TimesResponse(start_time, images_limit)
           BeforeEnd(t) == t < end_time
       IN
        /\ times # <<>>
        /\ times[Len(times)] > end_time
        /\ image_times' = image_times \o SelectSeq(times, BeforeEnd)
    /\ image_requests' = Append(image_requests, ImageRequest)
    /\ ipc' = "done"
    /\ UNCHANGED <<notImages, server_times, start_time, end_time, images_limit>>

\* last == end: keep every time and break
ImagesEndReached ==
    /\ ipc = "loop"
    /\ end_time # NoEnd
    /\ LET times == TimesResponse(start_time, images_limit) IN
        /\ times # <<>>
        /\ times[Len(times)] = end_time
        /\ image_times' = image_times \o times
    /\ image_requests' = Append(image_requests, ImageRequest)
    /\ ipc' = "done"
    /\ UNCHANGED <<notImages, server_times, start_time, end_time, images_limit>>

\* self._request_manager.get raises: the exception leaves images
ImagesRequestFails ==
    /\ ipc = "loop"
    /\ image_requests' = Append(image_requests, ImageRequest)
    /\ ipc' = "raised"
    /\ UNCHANGED <<notImages, server_times, start_time, end_time, images_limit, image_times>>

\* return image_times
ImagesReturn ==
    /\ ipc = "done"
    /\ ipc' = "returned"
    /\ UNCHANGED <<notImages, server_times, start_time, end_time, images_limit, image_times,
                   image_requests>>

ImagesNext ==
    \/ ImagesNoEndTime
    \/ ImagesNoTimes
    \/ ImagesKeepLooking
    \/ ImagesSingleTime
    \/ ImagesEndInBetween
    \/ ImagesEndReached
    \/ ImagesRequestFails
    \/ ImagesReturn

InitImages == EarlierIdle /\ QueryIdle /\ MergeIdle /\ ImagesInit /\ LastIdle

SpecImages == InitImages /\ [][ImagesNext]_vars

\* the times the media cache holds from a time on
TimesFrom(time) == {server_times[k] : k \in {k \in 1..Len(server_times) : server_times[k] >= time}}

(***************************************************************************)
(* C30: images called without end_time has issued exactly one request when *)
(* it returns, and returns the times of that response as the server gave    *)
(* them: the earliest `limit` times from start_time on (all of them when    *)
(* there are fewer), in increasing order.                                   *)
(***************************************************************************)
C30_OneRequestWithoutEndTime ==
    (ipc = "returned" /\ end_time = NoEnd) =>
        /\ Len(image_requests) = 1
        /\ image_requests[1] = [time |-> start_time, limit |-> images_limit]
        /\ Len(image_times) = Min(images_limit, Cardinality(TimesFrom(start_time)))
        /\ \A k \in 1..Len(image_times) :
            /\ image_times[k] \in TimesFrom(start_time)
            /\ Cardinality({t \in TimesFrom(start_time) : t < image_times[k]}) = k - 1

\* a call without end_time returned `limit` times although the server holds more
C30_Witness ==
    /\ ipc = "returned"
    /\ end_time = NoEnd
    /\ images_limit = 2
    /\ Len(image_times) = images_limit
    /\ Cardinality(TimesFrom(start_time)) > images_limit

(***************************************************************************)
(* SessionManager.start_session: read the token file, verify the token,    *)
(* get a new token when there is none that can be used.  The exceptions of *)
(* requests (ConnectionError, HTTPError of raise_for_status) are IOErrors. *)
(***************************************************************************)

\* bound: calls of start_session on one token file
MaxStarts == 2

\* the access tokens the server hands out
AccessTokens == {"t1", "t2", "t3"}

\* 'Bearer ' + token_request['access_token']
Bearer(access) ==
    IF access = "t1" THEN "Bearer t1" ELSE IF access = "t2" THEN "Bearer t2" ELSE "Bearer t3"

\* {'name': 'Authorization', 'value': 'Bearer ' + access_token}
Token(access) == [name |-> "Authorization", value |-> Bearer(access)]

\* self.token = None
NoToken == [name |-> "None", value |-> "None"]

\* the POSTs of one get_token: over https, then over http after an HTTPError
TokenPosts == {<<"https">>, <<"https", "http">>}

\* SessionManager(): self.token = None; the token file is there or not
ManagerInit ==
    /\ token = NoToken
    /\ token_file \in {<<>>} \cup {<<Token(a)>> : a \in AccessTokens}
    /\ spc = "made"
    /\ starts = 0
    /\ file_found = "unread"
    /\ verified = "none"
    /\ token_posts = <<>>
    /\ get_calls = 0

\* start_session is called
StartSession ==
    /\ spc \in {"made", "returned", "raised"}
    /\ starts < MaxStarts
    /\ starts' = starts + 1
    /\ spc' = "read"
    /\ file_found' = "unread"
    /\ verified' = "none"
    /\ token_posts' = <<>>
    /\ get_calls' = 0
    /\ UNCHANGED <<notManager, token, token_file>>

\* self._read_token_file(): self.token = json.load(token_file)
ReadTokenFile ==
    /\ spc = "read"
    /\ token_file # <<>>
    /\ token' = token_file[1]
    /\ file_found' = "found"
    /\ spc' = "verify"
    /\ UNCHANGED <<notManager, token_file, starts, verified, token_posts, get_calls>>

\* open raises FileNotFoundError: except (IOError, FileNotFoundError)
TokenFileMissing ==
    /\ spc = "read"
    /\ token_file = <<>>
    /\ file_found' = "missing"
    /\ spc' = "except"
    /\ UNCHANGED <<notManager, token, token_file, starts, verified, token_posts, get_calls>>

\* verify_token returns True: start_session is done
VerifyValid ==
    /\ spc = "verify"
    /\ verified' = "valid"
    /\ spc' = "returned"
    /\ UNCHANGED <<notManager, token, token_file, starts, file_found, token_posts, get_calls>>

\* verify_token returns False: name is None, or fewer than 60 minutes are left
VerifyRejects ==
    /\ spc = "verify"
    /\ \E answer \in {"invalid", "expiring"} : verified' = answer
    /\ spc' = "get"
    /\ UNCHANGED <<notManager, token, token_file, starts, file_found, token_posts, get_calls>>

\* a verify_token that lets the exception of its request leave start_session
VerifyRaises_Propagates ==
    /\ spc = "verify"
    /\ verified' = "raised"
    /\ spc' = "raised"
    /\ UNCHANGED <<notManager, token, token_file, starts, file_found, token_posts, get_calls>>

\* requests.get or resp.raise_for_status() raises: an IOError, caught by start_session
VerifyRaises ==
    /\ spc = "verify"
    /\ verified' = "raised"
    /\ spc' = "except"
    /\ UNCHANGED <<notManager, token, token_file, starts, file_found, token_posts, get_calls>>

\* get_token: the token of the answer is stored and written to the token file
GetTokenOk ==
    /\ spc \in {"get", "except"}
    /\ \E access \in AccessTokens :
        /\ token' = Token(access)
        /\ token_file' = <<Token(access)>>
    /\ \E posts \in TokenPosts : token_posts' = token_posts \o posts
    /\ get_calls' = get_calls + 1
    /\ spc' = "returned"
    /\ UNCHANGED <<notManager, starts, file_found, verified>>

\* get_token raises the exception of its request: inside the try it is caught as an
\* IOError, inside the handler it leaves start_session
GetTokenFails ==
    /\ spc \in {"get", "except"}
    /\ \E posts \in TokenPosts : token_posts' = token_posts \o posts
    /\ get_calls' = get_calls + 1
    /\ spc' = IF spc = "get" THEN "except" ELSE "raised"
    /\ UNCHANGED <<notManager, token, token_file, starts, file_found, verified>>

SessionNext ==
    \/ StartSession
    \/ ReadTokenFile
    \/ TokenFileMissing
    \/ VerifyValid
    \/ VerifyRejects
    \/ VerifyRaises
    \/ GetTokenOk
    \/ GetTokenFails

InitSession == EarlierIdle /\ QueryIdle /\ MergeIdle /\ ImagesIdle /\ ManagerInit /\ IterIdle

SpecSession == InitSession /\ [][SessionNext]_vars

\* a start_session that returned has a token; a token file that is there was verified
\* before a new token was asked for; a new token that was got is in the token file
C31_TokenSetAndWritten ==
    /\ spc = "returned" => token # NoToken
    /\ (get_calls > 0 /\ file_found = "found") => verified # "none"
    /\ (spc = "returned" /\ get_calls > 0) => token_file = <<token>>

(***************************************************************************)
(* C31: after start_session has returned the token is set; a token file    *)
(* that is there is read and verified first; a new token is requested only *)
(* when the file is missing or the verification answered that the token is *)
(* invalid or close to expiry; a new token that was acquired is the token  *)
(* in the token file.                                                      *)
(***************************************************************************)
C31_StartSession ==
    /\ C31_TokenSetAndWritten
    /\ get_calls > 0 => (file_found = "missing" \/ verified \in {"invalid", "expiring"})

\* a new token was requested although the file was there and no verification rejected it
C31_RequestedAfterFailedVerification ==
    /\ get_calls > 0
    /\ file_found = "found"
    /\ verified = "raised"

(***************************************************************************)
(* Claiming of tasks and writing of result slots by the runner threads.    *)
(***************************************************************************)
\* the __downloadRunner threads that have taken task i off the queue and not finished it
DownloadHolders(i) ==
    {w \in 1..Len(dworkers) : dworkers[w].pc # "get" /\ dworkers[w].index = i}

\* the places of task i on the queue of downloadImages
DownloadQueued(i) == {k \in 1..Len(dq) : dq[k].index = i}

\* the __indexRunner threads that have taken task i off the queue and not finished it
IndexHolders(i) == {w \in 1..Len(workers) : workers[w].pc # "get" /\ workers[w].index = i}

\* the places of task i on the queue of index
IndexQueued(i) == {k \in 1..Len(q) : q[k].index = i}

\* the tasks index has put on its queue so far
IndexPut == Max(Len(results) - Len(queries), 0)

\* downloadImages: a task that was put is on the queue or with one thread, never both
\* and never with two; a slot is filled only by the thread that holds its task, with
\* the image of the url of that task
DownloadTasksClaimedOnce ==
    /\ \A i \in 0..(dput - 1) :
        /\ Cardinality(DownloadHolders(i)) + Cardinality(DownloadQueued(i)) <= 1
        /\ image_data[i + 1] # EmptyImage =>
            /\ DownloadQueued(i) = {}
            /\ \A w \in DownloadHolders(i) : dworkers[w].pc = "task_done"
            /\ image_data[i + 1] = Imread(urls[i + 1])
    /\ \A i \in dput..(Len(image_data) - 1) : image_data[i + 1] = EmptyImage
    /\ dpc = "returned" =>
        \A i \in 0..(Len(urls) - 1) :
            /\ DownloadHolders(i) = {} /\ DownloadQueued(i) = {}
            /\ image_data[i + 1] # EmptyImage <=> (return_image_data /\ urls[i + 1] # NoneUrl)

\* index: the same for the queries of index and the slots of results
IndexTasksClaimedOnce ==
    /\ \A i \in 0..(IndexPut - 1) :
        /\ Cardinality(IndexHolders(i)) + Cardinality(IndexQueued(i)) <= 1
        /\ results[i + 1] # EmptySlot =>
            /\ IndexQueued(i) = {}
            /\ \A w \in IndexHolders(i) : workers[w].pc = "task_done"
    /\ \A i \in IndexPut..(Len(results) - 1) : results[i + 1] = EmptySlot
    /\ pc = "returned" =>
        \A i \in 0..(Len(results) - 1) :
            /\ IndexHolders(i) = {} /\ IndexQueued(i) = {}
            /\ results[i + 1] # EmptySlot

\* a step writes a slot only when the slot is still empty: no slot is written twice
SlotsWrittenOnce ==
    /\ Len(image_data') = Len(image_data) =>
        \A k \in 1..Len(image_data) :
            image_data'[k] # image_data[k] => image_data[k] = EmptyImage
    /\ Len(results') = Len(results) =>
        \A k \in 1..Len(results) : results'[k] # results[k] => results[k] = EmptySlot

C33_WorkersTerminated ==
    /\ pc = "returned" => \A w \in 1..Len(workers) : workers[w].pc = "dead"
    /\ dpc = "returned" => \A w \in 1..Len(dworkers) : dworkers[w].pc = "dead"

(***************************************************************************)
(* C35: index called with skip0 >= max_skip, so that no window fits in     *)
(* [skip0, max_skip), ends by returning an empty result: it does not raise *)
(* and it issues no request.                                               *)
(***************************************************************************)
C35_NoWindowReturnsEmpty ==
    (skip >= max_skip /\ pc \notin {"idle", "build", "first"}) =>
        /\ pc = "returned"
        /\ exc = "None"
        /\ ret = <<>>
        /\ requested = <<>>

(***************************************************************************)
(* C34: a preview of N >= 1 observation ids that has ended has called its  *)
(* worker exactly once for each id, whatever max_threads >= 1 is, also for *)
(* max_threads = 1 with N > 1.                                             *)
(***************************************************************************)
C34_WorkerOncePerId ==
    (ppc \in {"returned", "raised"} /\ Len(observation_ids) >= 1 /\ max_threads >= 1) =>
        \A i \in 1..Len(observation_ids) : pcalls[i] = 1

(***************************************************************************)
(* Cameras.imagesRange of heliosSDK: the older ranged query.  It runs on   *)
(* the variables of Cameras.images: image_times is its output_json, and    *)
(* every request is images(camera_id, start_time, limit=limit).            *)
(***************************************************************************)
\* imagesRange(camera_id, start_time, end_time, limit=500): output_json = []
RangeInit ==
    /\ server_times \in {Ascending(S) : S \in SUBSET (1..MaxTime)}
    /\ start_time \in 1..MaxTime
    /\ end_time \in 1..MaxTime
    /\ images_limit \in 1..MaxLimit
    /\ image_times = <<>>
    /\ ipc = "loop"
    /\ image_requests = <<>>

\* if json_response['total'] == 0: break
RangeNoTimes ==
    /\ ipc = "loop"
    /\ TimesResponse(start_time, images_limit) = <<>>
    /\ image_requests' = Append(image_requests, ImageRequest)
    /\ ipc' = "done"
    /\ UNCHANGED <<notImages, server_times, start_time, end_time, images_limit, image_times>>

\* if first > end_time: break
RangeFirstAfterEnd ==
    /\ ipc = "loop"
    /\ LET times == TimesResponse(start_time, images_limit) IN
        /\ times # <<>>
        /\ times[1] > end_time
    /\ image_requests' = Append(image_requests, ImageRequest)
    /\ ipc' = "done"
    /\ UNCHANGED <<notImages, server_times, start_time, end_time, images_limit, image_times>>

\* if len(times) == 1: output_json.extend(times); break
RangeSingleTime ==
    /\ ipc = "loop"
    /\ LET times == TimesResponse(start_time, images_limit) IN
        /\ Len(times) = 1
        /\ times[1] <= end_time
        /\ image_times' = image_times \o times
    /\ image_requests' = Append(image_requests, ImageRequest)
    /\ ipc' = "done"
    /\ UNCHANGED <<notImages, server_times, start_time, end_time, images_limit>>

\* if last < end_time: output_json.extend(times); start_time = times[-1]; continue
RangeKeepLooking ==
    /\ ipc = "loop"
    /\ LET times == TimesResponse(start_time, images_limit) IN
        /\ Len(times) > 1
        /\ times[1] <= end_time
        /\ times[Len(times)] < end_time
        /\ image_times' = image_times \o times
        /\ start_time' = times[Len(times)]
    /\ image_requests' = Append(image_requests, ImageRequest)
    /\ UNCHANGED <<notImages, server_times, end_time, images_limit, ipc>>

\* else: keep the times before end_time and break
RangeEndInBetween ==
    /\ ipc = "loop"
    /\ LET times == TimesResponse(start_time, images_limit)
           BeforeEnd(t) == t < end_time
       IN
        /\ Len(times) > 1
        /\ times[1] <= end_time
        /\ times[Len(times)] >= end_time
        /\ image_times' = image_times \o SelectSeq(times, BeforeEnd)
    /\ image_requests' = Append(image_requests, ImageRequest)
    /\ ipc' = "done"
    /\ UNCHANGED <<notImages, server_times, start_time, end_time, images_limit>>

\* self.images raises: the exception leaves imagesRange
RangeRequestFails ==
    /\ ipc = "loop"
    /\ image_requests' = Append(image_requests, ImageRequest)
    /\ ipc' = "raised"
    /\ UNCHANGED <<notImages, server_times, start_time, end_time, images_limit, image_times>>

\* return {'total': len(output_json), 'times': output_json}
RangeReturn ==
    /\ ipc = "done"
    /\ ipc' = "returned"
    /\ UNCHANGED <<notImages, server_times, start_time, end_time, images_limit, image_times,
                   image_requests>>

RangeNext ==
    \/ RangeNoTimes
    \/ RangeFirstAfterEnd
    \/ RangeSingleTime
    \/ RangeKeepLooking
    \/ RangeEndInBetween
    \/ RangeRequestFails
    \/ RangeReturn

InitRange == EarlierIdle /\ QueryIdle /\ MergeIdle /\ RangeInit /\ LastIdle

SpecRange == InitRange /\ [][RangeNext]_vars

(***************************************************************************)
(* C36: a ranged image-time query never holds the same image time twice in *)
(* its accumulated result: the last time of a response that becomes the    *)
(* start time of the next request is in the result exactly once.           *)
(***************************************************************************)
C36_NoTimeTwice ==
    \A i, j \in 1..Len(image_times) : i # j => image_times[i] # image_times[j]

\* Cameras.images runs in a thread that keeps taking its steps; every request it sends
\* is answered or fails
SpecImagesFair == SpecImages /\ WF_vars(ImagesNext)

\* an iteration that does not break has moved start_time forward
LoopAdvances == (ipc = "loop" /\ ipc' = "loop" /\ image_requests' # image_requests) =>
                    start_time' > start_time

(***************************************************************************)
(* C37: Cameras.images called with an end_time terminates for every server *)
(* that holds finitely many image times in strictly increasing order: an   *)
(* iteration of the loop breaks or moves start_time strictly forward, so   *)
(* the call ends, by returning or with the exception of a request.         *)
(***************************************************************************)
C37_RangedImagesTerminates ==
    /\ [][LoopAdvances]_vars
    /\ (end_time # NoEnd) => <>(ipc \in {"returned", "raised"})

\* a call with an end_time returned after it had gone through the loop three times
C37_Witness ==
    /\ ipc = "returned"
    /\ end_time # NoEnd
    /\ Len(image_requests) >= 3

(***************************************************************************)
(* Iteration over a DataContainer: __iter__ returns the container itself,  *)
(* and __next__ reads and moves the one self._idx of the container.        *)
(* FeatureCollection has the same two methods over self.features.          *)
(***************************************************************************)

\* bound: for loops over one container, nested or in two threads
MaxLoops == 2
\* bound: items one loop takes before the model stops following it
MaxVisits == 4

\* a for loop that has not called iter() yet
NewLoop == [pc |-> "new", seen |-> <<>>]

\* a container and the loops that will run over it
LoopsInit ==
    /\ idx = 0
    /\ loops = [l \in 1..MaxLoops |-> NewLoop]

\* __iter__: self._idx = 0; return self
LoopIter ==
    \E l \in 1..Len(loops) :
        /\ loops[l].pc = "new"
        /\ idx' = 0
        /\ loops' = [loops EXCEPT ![l].pc = "iterating"]
        /\ UNCHANGED <<notIter, containerVars>>

\* __next__: temp = self._raw_data[self._idx]; self._idx += 1; return temp
LoopNextItem ==
    \E l \in 1..Len(loops) :
        /\ loops[l].pc = "iterating"
        /\ Len(loops[l].seen) < MaxVisits
        /\ idx < Len(raw_data)
        /\ loops' = [loops EXCEPT ![l].seen = Append(@, raw_data[idx + 1])]
        /\ idx' = idx + 1
        /\ UNCHANGED <<notIter, containerVars>>

\* __next__: self._idx >= len(self): self._idx = 0; raise StopIteration
LoopStop ==
    \E l \in 1..Len(loops) :
        /\ loops[l].pc = "iterating"
        /\ idx >= Len(raw_data)
        /\ idx' = 0
        /\ loops' = [loops EXCEPT ![l].pc = "done"]
        /\ UNCHANGED <<notIter, containerVars>>

IterNext ==
    \/ LoopIter
    \/ LoopNextItem
    \/ LoopStop

InitIterate ==
    /\ IndexIdle /\ DownloadIdle /\ PreviewIdle /\ ContainerInit /\ MessagesIdle
    /\ SessionStarted /\ QueryIdle /\ MergeIdle /\ ImagesIdle /\ ManagerIdle
    /\ LoopsInit

SpecIterate == InitIterate /\ [][IterNext]_vars

(***************************************************************************)
(* C38: a for loop over a container that has ended has got every record    *)
(* exactly once, in the order of the container, also when another loop     *)
(* over the same container ran between its steps (a nested loop, or a loop *)
(* in a second thread).                                                    *)
(***************************************************************************)
C38_EveryRecordOnceInOrder ==
    \A l \in 1..Len(loops) : loops[l].pc = "done" => loops[l].seen = raw_data

\* a loop that ran alone, before or after the other one, has got every record once
C38_LoopsOneAfterTheOther ==
    \A l \in 1..Len(loops) :
        (loops[l].pc = "done" /\ \A o \in 1..Len(loops) : o # l => loops[o].pc = "new")
            => loops[l].seen = raw_data

====
